---- MODULE Spec2Model ----
(***************************************************************************)
(* State-machine model of RigDef::Parser (RigDef_Parser.cpp), the line     *)
(* oriented parser of Rigs of Rods vehicle definitions.                     *)
(*                                                                         *)
(* A line is given already split in its tokens: kw is the result of        *)
(* IdentifyKeywordInCurrentLine (the regexes are not part of the sources), *)
(* toks the slices TokenizeCurrentLine stores (the keyword is token 0 of a *)
(* keyword line).  A token is a sequence of one-character strings; the     *)
(* keyword token and module names are kept as one lexeme.                  *)
(* Objects held by std::shared_ptr live in heaps (sequences); a pointer is *)
(* an index and 0 is nullptr.  Floats are modelled by integers.            *)
(***************************************************************************)
EXTENDS Integers, Sequences, FiniteSets, TLC

VARIABLES
    m_current_line,          \* the line buffer: last line handed to ProcessCurrentLine
    m_current_line_number,
    m_args,                  \* token slices of the last tokenized line
    m_num_args,
    m_current_block,
    m_log_keyword,
    m_definition,            \* File: name, global flags, user_modules
    modules,                 \* heap of File::Module objects; modules[1] is the root module
    m_current_module,        \* pointer into modules
    heap,                    \* heaps of NodeDefaults, BeamDefaults, Inertia, DefaultMinimass
    m_user_node_defaults,
    m_user_beam_defaults,
    m_user_default_inertia,
    m_set_default_minimass,
    m_current_managed_material_options,
    m_current_detacher_group,
    m_current_submesh,       \* <<>> is nullptr, <<obj>> a staged Submesh
    m_current_camera_rail,   \* <<>> is nullptr, <<obj>> a staged CameraRail
    m_any_named_node_defined,
    m_sequential_importer,
    console,                 \* messages handed to Console::putMessage, in order
    stream                   \* "open": lines may still come; "finalized": Finalize() has run;
                             \* "read_failed": readLine threw; "crashed": the process ended

vars == << m_current_line, m_current_line_number, m_args, m_num_args,
           m_current_block, m_log_keyword, m_definition, modules,
           m_current_module, heap, m_user_node_defaults, m_user_beam_defaults,
           m_user_default_inertia, m_set_default_minimass,
           m_current_managed_material_options, m_current_detacher_group,
           m_current_submesh, m_current_camera_rail, m_any_named_node_defined,
           m_sequential_importer, console, stream >>

(***************************************************************************)
(* Bounds of the model.                                                    *)
(***************************************************************************)
\* lines read from the stream in one parse
MaxLines == 5

\* lines read in the argument-count scenarios
MaxLinesGate == 4

\* lines read in the scenarios of blocks and staged objects
MaxLinesSwitch == 6

\* lines read in the scenarios of the sequential importer
MaxLinesImporter == 8

\* lines read in the scenarios of node references
MaxLinesNodeRefs == 6

\* lines read in the scenarios of the registrations of the importer
MaxLinesRegistration == 6

\* lines read in the scenarios of the document name
MaxLinesName == 4

\* lines read in the scenarios of diagnostics and read failures
MaxLinesFaults == 4

\* lines read in the scenarios of trailing comments
MaxLinesComments == 4

\* lines read in the scenarios of set_beam_defaults
MaxLinesBeamDefaults == 4

\* lines read in the scenarios of the block-ending keywords
MaxLinesEnd == 5

\* lines read in the scenarios of submesh and camerarail
MaxLinesStaged == 5

\* lines read in the module-switching scenarios
MaxLinesModules == 8

(***************************************************************************)
(* Constants of the program.                                               *)
(***************************************************************************)
KEYWORD_INVALID == "KEYWORD_INVALID"

ROOT_MODULE_NAME == <<"_Root_">>

\* SimConstants.h values enter only through their names; the numbers are
\* small stand-ins that differ from each other and from the test inputs.
DEFAULT_SPRING == 90

DEFAULT_DAMP == 91

BEAM_DEFORM == 92

BEAM_BREAK == 93

DEFAULT_BEAM_DIAMETER == 94

CONSOLE_SYSTEM_WARNING == "warning"

CONSOLE_SYSTEM_ERROR == "error"

(***************************************************************************)
(* Character and number helpers.                                           *)
(***************************************************************************)
Digits == <<"0", "1", "2", "3", "4", "5", "6", "7", "8", "9">>

IsDigit(c) == \E i \in 1..10 : Digits[i] = c

DigitVal(c) == (CHOOSE i \in 1..10 : Digits[i] = c) - 1

\* number of leading digits of the character sequence cs
RECURSIVE DigitRun(_)
DigitRun(cs) ==
    IF cs = <<>> \/ ~IsDigit(Head(cs)) THEN 0 ELSE 1 + DigitRun(Tail(cs))

RECURSIVE DigitsValue(_, _)
DigitsValue(cs, acc) ==
    IF cs = <<>> \/ ~IsDigit(Head(cs)) THEN acc
    ELSE DigitsValue(Tail(cs), acc * 10 + DigitVal(Head(cs)))

\* std::strtol(str, &end, 10) on a token: optional sign, then digits.
\* end is the number of characters consumed (0: no conversion).
\* the result of strtol for n digits of value mag, after skipped characters
\* of sign
StrToLResult(negative, skipped, n, mag) ==
    IF n = 0 THEN [res |-> 0, end |-> 0]
    ELSE [res |-> IF negative THEN 0 - mag ELSE mag, end |-> n + skipped]

\* the conversion of the digits at the head of body
StrToLDigits(negative, skipped, body) ==
    StrToLResult(negative, skipped, DigitRun(body), DigitsValue(body, 0))

StrToL(tok) ==
    IF tok /= <<>> /\ Head(tok) \in {"-", "+"}
    THEN StrToLDigits(Head(tok) = "-", 1, Tail(tok))
    ELSE StrToLDigits(FALSE, 0, tok)

\* Ogre::StringConverter::parseReal(str, 0.f): the number, or the default 0
\* when the token is not a number.
\* the value when the conversion r consumed the whole token, else the
\* default 0
WholeTokenOrZero(tok, r) == IF r.end = Len(tok) /\ r.end > 0 THEN r.res ELSE 0

ParseReal(tok) == WholeTokenOrZero(tok, StrToL(tok))

\* PARSEINT: Ogre::StringConverter::parseInt, default 0
PARSEINT(tok) == WholeTokenOrZero(tok, StrToL(tok))

\* static_cast<unsigned>(long): a negative v wraps to 2^32 + v, which is kept
\* symbolically because it exceeds the integers of the model checker
UintCast(v) == IF v >= 0 THEN v ELSE [two_pow_32_plus |-> v]

(***************************************************************************)
(* The parser state as one record, so that handlers compose as functions.  *)
(***************************************************************************)
State ==
    [ m_current_line |-> m_current_line,
      m_current_line_number |-> m_current_line_number,
      m_args |-> m_args,
      m_num_args |-> m_num_args,
      m_current_block |-> m_current_block,
      m_log_keyword |-> m_log_keyword,
      m_definition |-> m_definition,
      modules |-> modules,
      m_current_module |-> m_current_module,
      heap |-> heap,
      m_user_node_defaults |-> m_user_node_defaults,
      m_user_beam_defaults |-> m_user_beam_defaults,
      m_user_default_inertia |-> m_user_default_inertia,
      m_set_default_minimass |-> m_set_default_minimass,
      m_current_managed_material_options |-> m_current_managed_material_options,
      m_current_detacher_group |-> m_current_detacher_group,
      m_current_submesh |-> m_current_submesh,
      m_current_camera_rail |-> m_current_camera_rail,
      m_any_named_node_defined |-> m_any_named_node_defined,
      m_sequential_importer |-> m_sequential_importer,
      console |-> console,
      stream |-> stream ]

Becomes(s) ==
    /\ m_current_line' = s.m_current_line
    /\ m_current_line_number' = s.m_current_line_number
    /\ m_args' = s.m_args
    /\ m_num_args' = s.m_num_args
    /\ m_current_block' = s.m_current_block
    /\ m_log_keyword' = s.m_log_keyword
    /\ m_definition' = s.m_definition
    /\ modules' = s.modules
    /\ m_current_module' = s.m_current_module
    /\ heap' = s.heap
    /\ m_user_node_defaults' = s.m_user_node_defaults
    /\ m_user_beam_defaults' = s.m_user_beam_defaults
    /\ m_user_default_inertia' = s.m_user_default_inertia
    /\ m_set_default_minimass' = s.m_set_default_minimass
    /\ m_current_managed_material_options' = s.m_current_managed_material_options
    /\ m_current_detacher_group' = s.m_current_detacher_group
    /\ m_current_submesh' = s.m_current_submesh
    /\ m_current_camera_rail' = s.m_current_camera_rail
    /\ m_any_named_node_defined' = s.m_any_named_node_defined
    /\ m_sequential_importer' = s.m_sequential_importer
    /\ console' = s.console
    /\ stream' = s.stream

(***************************************************************************)
(* Diagnostics and argument access.                                        *)
(***************************************************************************)
LogMessage(s, type, msg) ==
    [s EXCEPT !.console = Append(@, [type |-> type,
                                     line |-> s.m_current_line_number,
                                     keyword |-> s.m_log_keyword,
                                     msg |-> msg])]

\* CheckNumArguments(min_args) returns ok and logs when it fails
\* mutant: a line with exactly min_args tokens is rejected too
CheckNumArgumentsGate_Strict(s, min_args) == min_args < s.m_num_args

CheckNumArgumentsGate(s, min_args) == ~(min_args > s.m_num_args)

\* mutant: the refusal is not logged
CheckNumArguments_Silent(s, min_args) == s

CheckNumArguments(s, min_args) ==
    IF CheckNumArgumentsGate(s, min_args) THEN s
    ELSE LogMessage(s, CONSOLE_SYSTEM_WARNING, "Not enough arguments")

\* m_args[index]: the source indexes from 0
GetArgStr(s, index) == s.m_args[index + 1]

GetArgChar(s, index) == Head(s.m_args[index + 1])

GetArgFloat(s, index) == ParseReal(GetArgStr(s, index))

\* GetArgLong returns the value and logs: res is the value, s the state after
CheckedLong(s, tok, r) ==
    IF r.end = 0
    THEN [res |-> 0,
          s |-> LogMessage(s, CONSOLE_SYSTEM_ERROR, "Argument is not valid integer")]
    ELSE IF r.end /= Len(tok)
    THEN [res |-> r.res,
          s |-> LogMessage(s, CONSOLE_SYSTEM_WARNING,
                           "Integer argument has invalid trailing characters")]
    ELSE [res |-> r.res, s |-> s]

GetArgLong(s, index) == CheckedLong(s, GetArgStr(s, index), StrToL(GetArgStr(s, index)))

GetArgInt(s, index) == GetArgLong(s, index)

GetArgUint(s, index) ==
    LET r == GetArgLong(s, index) IN [res |-> UintCast(r.res), s |-> r.s]

(***************************************************************************)
(* Value objects and their constructors.                                   *)
(***************************************************************************)
\* NodeDefaults(), as allocated by Parser::Parser()
NewNodeDefaults ==
    [load_weight |-> 0 - 1, friction |-> 1, volume |-> 1, surface |-> 1, options |-> {}]

\* Inertia(), as allocated by Parser::Parser()
NewInertia ==
    [start_delay_factor |-> 0, stop_delay_factor |-> 0,
     start_function |-> <<>>, stop_function |-> <<>>]

\* BeamDefaults as Prepare() leaves it
PreparedBeamDefaults ==
    [springiness |-> DEFAULT_SPRING, damping_constant |-> DEFAULT_DAMP,
     deformation_threshold |-> BEAM_DEFORM, breaking_threshold |-> BEAM_BREAK,
     visual_beam_diameter |-> DEFAULT_BEAM_DIAMETER,
     beam_material_name |-> <<"tracks/beam">>,
     plastic_deform_coef |-> 0,
     _enable_advanced_deformation |-> FALSE,
     _is_plastic_deform_coef_user_defined |-> FALSE,
     _is_user_defined |-> FALSE,
     scale |-> [springiness |-> 1, damping_constant |-> 1,
                deformation_threshold_constant |-> 1,
                breaking_threshold_constant |-> 1]]

\* ManagedMaterialsOptions()
NewManagedMaterialsOptions == [double_sided |-> FALSE]

\* CameraSettings as the constructors of Prop and Flexbody leave it
NewCameraSettings == [mode |-> "MODE_ALWAYS", cinecam_index |-> 0]

\* File::Module(name): every collection empty
NewModule(name) ==
    [name |-> name, nodes |-> <<>>, beams |-> <<>>, hydros |-> <<>>,
     minimass |-> <<>>, engine |-> <<>>, author |-> <<>>,
     fileformatversion |-> <<>>, fileinfo |-> <<>>,
     managedmaterials |-> <<>>, submeshes |-> <<>>, camerarail |-> <<>>,
     help |-> <<>>, wheels |-> <<>>, wheels_2 |-> <<>>, mesh_wheels |-> <<>>,
     flexbodywheels |-> <<>>, cinecam |-> <<>>, flexbodies |-> <<>>,
     shocks |-> <<>>, ties |-> <<>>, triggers |-> <<>>, commands2 |-> <<>>,
     antilockbrakes |-> <<>>, tractioncontrol |-> <<>>,
     props |-> <<>>, set_skeleton_settings |-> <<>>, extcamera |-> <<>>,
     torquecurve |-> <<>>, fixes |-> <<>>, interaxles |-> <<>>]

Collections ==
    {"nodes", "beams", "hydros", "minimass", "engine", "author",
     "fileformatversion", "fileinfo", "managedmaterials", "submeshes", "camerarail",
     "help", "wheels", "wheels_2", "mesh_wheels", "flexbodywheels", "cinecam",
     "flexbodies", "shocks", "ties", "triggers", "commands2", "antilockbrakes",
     "tractioncontrol", "props", "set_skeleton_settings", "extcamera",
     "torquecurve", "fixes", "interaxles"}

\* mutant: the record is put in front of the collection
PushBack_Front(s, coll, rec) ==
    [s EXCEPT !.modules[s.m_current_module][coll] = <<rec>> \o @]

\* m_current_module-><coll>.push_back(rec)
PushBack(s, coll, rec) ==
    [s EXCEPT !.modules[s.m_current_module][coll] = Append(@, rec)]

\* std::shared_ptr<T>(new T(obj)): allocate in heap h, the pointer is the new index
Alloc(s, h, obj) == [s EXCEPT !.heap[h] = Append(@, obj)]

NewPtr(s, h) == Len(s.heap[h]) + 1

(***************************************************************************)
(* Sequential importer (RigDef_SequentialImporter is not part of the       *)
(* sources): the registrations, in encounter order.                        *)
(***************************************************************************)
ImporterInit(enabled) ==
    [enabled |-> enabled, all_nodes |-> <<>>, processed |-> FALSE,
     final_nodes |-> <<>>]

ImporterAdd(s, entry) ==
    IF s.m_sequential_importer.enabled
    THEN [s EXCEPT !.m_sequential_importer.all_nodes = Append(@, entry)]
    ELSE s

\* the implicit nodes of one wheel-like line for each of its rays
WheelNodesPerRay == 2

\* the registrations of all_nodes which satisfy one of the kinds, in order
RECURSIVE SelectKinds(_, _)
SelectKinds(entries, kinds) ==
    IF entries = <<>> THEN <<>>
    ELSE IF Head(entries).kind \in kinds
    THEN <<Head(entries)>> \o SelectKinds(Tail(entries), kinds)
    ELSE SelectKinds(Tail(entries), kinds)

\* the implicit nodes of one synthetic request: one for a generated node,
\* WheelNodesPerRay * num_rays for a wheel-like line
SynthesizedBy(entry) ==
    IF entry.kind = "generated" THEN <<entry>>
    ELSE [k \in 1..(IF entry.num_rays > 0 THEN WheelNodesPerRay * entry.num_rays ELSE 0)
            |-> [kind |-> "wheel_node", keyword |-> entry.keyword, ray_node |-> k]]

RECURSIVE SynthesizedNodes(_)
SynthesizedNodes(requests) ==
    IF requests = <<>> THEN <<>>
    ELSE SynthesizedBy(Head(requests)) \o SynthesizedNodes(Tail(requests))

\* the nodes in final index order, the first one has index 0: the explicit
\* nodes in encounter order, then the implicit nodes of the requests in
\* encounter order
FinalNodes(all_nodes) ==
    SelectKinds(all_nodes, {"numbered", "named"})
        \o SynthesizedNodes(SelectKinds(all_nodes, {"generated", "wheel"}))

\* no numbered node and no synthetic request was ever registered
ImporterIsNoOp(imp) == \A i \in DOMAIN imp.all_nodes : imp.all_nodes[i].kind = "named"

\* the final identity of a reference which holds both interpretations
ResolveNode(imp, ref) ==
    IF "IMPORT_STATE_IS_VALID" \notin ref.flags THEN ref
    ELSE IF /\ "IMPORT_STATE_MUST_CHECK_NAMED_FIRST" \in ref.flags
            /\ \E i \in DOMAIN imp.all_nodes :
                   imp.all_nodes[i].kind = "named" /\ imp.all_nodes[i].name = ref.id_str
    THEN [ref EXCEPT !.id_num = 0,
                     !.flags = {"REGULAR_STATE_IS_VALID", "REGULAR_STATE_IS_NAMED"}]
    ELSE IF ref.id_num < Len(imp.final_nodes)
    THEN IF imp.final_nodes[ref.id_num + 1].kind = "named"
         THEN [ref EXCEPT !.id_str = imp.final_nodes[ref.id_num + 1].name,
                          !.id_num = 0,
                          !.flags = {"REGULAR_STATE_IS_VALID", "REGULAR_STATE_IS_NAMED"}]
         ELSE [ref EXCEPT !.id_str = <<>>,
                          !.flags = {"REGULAR_STATE_IS_VALID", "REGULAR_STATE_IS_NUMBERED"}]
    ELSE [ref EXCEPT !.id_str = <<>>, !.id_num = 0, !.flags = {}]

ResolveNodes(imp, refs) == [i \in DOMAIN refs |-> ResolveNode(imp, refs[i])]

\* the node references of one wheel-like record, rewritten
ResolveWheel(imp, wheel) ==
    [wheel EXCEPT !.nodes = ResolveNodes(imp, @),
                  !.rigidity_node = ResolveNode(imp, @),
                  !.reference_arm_node = ResolveNode(imp, @)]

\* the node references of the records of one module, rewritten
ResolveModule(imp, module) ==
    [module EXCEPT
       !.beams  = [i \in DOMAIN @ |-> [@[i] EXCEPT !.nodes = ResolveNodes(imp, @)]],
       !.hydros = [i \in DOMAIN @ |-> [@[i] EXCEPT !.nodes = ResolveNodes(imp, @)]],
       !.camerarail = [i \in DOMAIN @ |-> [@[i] EXCEPT !.nodes = ResolveNodes(imp, @)]],
       !.cinecam = [i \in DOMAIN @ |-> [@[i] EXCEPT !.nodes = ResolveNodes(imp, @)]],
       !.flexbodies = [i \in DOMAIN @ |->
                         [@[i] EXCEPT !.reference_node = ResolveNode(imp, @),
                                      !.x_axis_node = ResolveNode(imp, @),
                                      !.y_axis_node = ResolveNode(imp, @)]],
       !.wheels = [i \in DOMAIN @ |-> ResolveWheel(imp, @[i])],
       !.wheels_2 = [i \in DOMAIN @ |-> ResolveWheel(imp, @[i])],
       !.mesh_wheels = [i \in DOMAIN @ |-> ResolveWheel(imp, @[i])],
       !.flexbodywheels = [i \in DOMAIN @ |-> ResolveWheel(imp, @[i])]]

\* Process(def): the single finalize pass
ImporterProcess(s) ==
    IF ~s.m_sequential_importer.enabled THEN s
    ELSE IF ImporterIsNoOp(s.m_sequential_importer)
    THEN [s EXCEPT !.m_sequential_importer.processed = TRUE]
    ELSE LET imp == [s.m_sequential_importer EXCEPT
                       !.processed = TRUE,
                       !.final_nodes = FinalNodes(s.m_sequential_importer.all_nodes)]
         IN  [s EXCEPT !.m_sequential_importer = imp,
                       !.modules = [m \in DOMAIN s.modules |->
                                       ResolveModule(imp, s.modules[m])]]

(***************************************************************************)
(* Node references.                                                        *)
(***************************************************************************)
\* mutant: the reference keeps the numeric interpretation only
_ParseNodeRef_NumericOnly(s, node_id_str) ==
    LET n == PARSEINT(node_id_str)
    IN  [id_str |-> <<>>, id_num |-> IF n < 0 THEN n * (0 - 1) ELSE n,
         flags |-> {"IMPORT_STATE_IS_VALID"},
         line_number |-> s.m_current_line_number]

_ParseNodeRef(s, node_id_str) ==
    IF s.m_sequential_importer.enabled
    THEN LET n == PARSEINT(node_id_str)
             node_id_num == IF n < 0 THEN n * (0 - 1) ELSE n
             flags == {"IMPORT_STATE_IS_VALID", "REGULAR_STATE_IS_VALID",
                       "REGULAR_STATE_IS_NAMED"}
                      \cup (IF s.m_any_named_node_defined
                            THEN {"IMPORT_STATE_MUST_CHECK_NAMED_FIRST"} ELSE {})
         IN  [id_str |-> node_id_str, id_num |-> node_id_num, flags |-> flags,
              line_number |-> s.m_current_line_number]
    ELSE [id_str |-> node_id_str, id_num |-> 0,
          flags |-> {"REGULAR_STATE_IS_VALID", "REGULAR_STATE_IS_NAMED"},
          line_number |-> s.m_current_line_number]

GetArgNodeRef(s, index) == _ParseNodeRef(s, GetArgStr(s, index))

\* m_args[index] for an index which is not below m_num_args: the slot is
\* inside the array and keeps the start and length which an earlier line
\* wrote, so the string holds whatever the line buffer has there now; one
\* token stands for it
StaleSlice == <<"?">>

\* GetArgNodeRef(0) of the parsers which test no argument count
GetArgNodeRef0(s) ==
    IF s.m_num_args > 0 THEN GetArgNodeRef(s, 0) ELSE _ParseNodeRef(s, StaleSlice)

\* Node::Ref(): the invalid reference
InvalidNodeRef == [id_str |-> <<>>, id_num |-> 0, flags |-> {}, line_number |-> 0]

GetArgRigidityNode(s, index) ==
    IF GetArgStr(s, index) /= <<"9", "9", "9", "9">> THEN GetArgNodeRef(s, index)
    ELSE InvalidNodeRef

\* Node::Ref::IsValidAnyState
IsValidAnyState(ref) ==
    "IMPORT_STATE_IS_VALID" \in ref.flags \/ "REGULAR_STATE_IS_VALID" \in ref.flags

\* the values of enum WheelBraking: NONE to FOOT_ONLY
WheelBrakingValues == 0..4

\* the values of enum WheelPropulsion: NONE, FORWARD, BACKWARD
WheelPropulsionValues == 0..2

GetArgBraking(s, index) ==
    LET b == GetArgInt(s, index)
    IN  IF b.res \in WheelBrakingValues THEN b
        ELSE [res |-> 0,
              s |-> LogMessage(b.s, CONSOLE_SYSTEM_ERROR,
                               "Bad value of param (braking), using 0 (not braked)")]

GetArgPropulsion(s, index) ==
    LET p == GetArgInt(s, index)
    IN  IF p.res \in WheelPropulsionValues THEN p
        ELSE [res |-> 0,
              s |-> LogMessage(p.s, CONSOLE_SYSTEM_ERROR,
                               "Bad value of param (propulsion), using 0 (no propulsion)")]

(***************************************************************************)
(* Option strings of nodes.  The bitmask is the set of the bits set.       *)
(***************************************************************************)
NodeOptionBits ==
    {"l", "n", "m", "f", "x", "y", "c", "h", "e", "b", "p", "L"}

\* one iteration of the loop of _ParseNodeOptions; r = [options, s]
NodeOptionStep(r, c) ==
    IF c = "n" THEN [r EXCEPT !.options = (@ \cup {"n"}) \ {"m"}]
    ELSE IF c = "m" THEN [r EXCEPT !.options = (@ \cup {"m"}) \ {"n"}]
    ELSE IF c \in NodeOptionBits THEN [r EXCEPT !.options = @ \cup {c}]
    ELSE [r EXCEPT !.s = LogMessage(@, CONSOLE_SYSTEM_WARNING, "invalid option")]

RECURSIVE NodeOptionLoop(_, _)
NodeOptionLoop(r, str) ==
    IF str = <<>> THEN r ELSE NodeOptionLoop(NodeOptionStep(r, Head(str)), Tail(str))

\* _ParseNodeOptions(options, options_str): options = 0, then every character
_ParseNodeOptions(s, options_str) ==
    NodeOptionLoop([options |-> {}, s |-> s], options_str)

(***************************************************************************)
(* Directives which replace a link of the defaults context.                *)
(***************************************************************************)
\* Parser::Parser() allocates the engine defaults first: they are cell 1
m_ror_node_defaults == 1

m_ror_default_inertia == 1

\* mutant: a negative or omitted field keeps the value of the current defaults
ParseDirectiveSetNodeDefaults_Inherit(s) ==
    IF ~CheckNumArgumentsGate(s, 2) THEN CheckNumArguments(s, 2)
    ELSE
    LET load_weight == GetArgFloat(s, 1)
        friction    == IF s.m_num_args > 2 THEN GetArgFloat(s, 2) ELSE 0 - 1
        volume      == IF s.m_num_args > 3 THEN GetArgFloat(s, 3) ELSE 0 - 1
        surface     == IF s.m_num_args > 4 THEN GetArgFloat(s, 4) ELSE 0 - 1
        opt_str     == IF s.m_num_args > 5 THEN GetArgStr(s, 5) ELSE <<>>
        r           == _ParseNodeOptions(s, opt_str)
        obj == [s.heap.nd[s.m_user_node_defaults] EXCEPT
                  !.load_weight = IF load_weight < 0 THEN @ ELSE load_weight,
                  !.friction    = IF friction < 0 THEN @ ELSE friction,
                  !.volume      = IF volume < 0 THEN @ ELSE volume,
                  !.surface     = IF surface < 0 THEN @ ELSE surface,
                  !.options     = r.options]
    IN  [Alloc(r.s, "nd", obj) EXCEPT !.m_user_node_defaults = NewPtr(s, "nd")]

\* mutant: the directive writes into the object the records share
ParseDirectiveSetNodeDefaults_InPlace(s) ==
    IF ~CheckNumArgumentsGate(s, 2) THEN CheckNumArguments(s, 2)
    ELSE
    LET load_weight == GetArgFloat(s, 1)
        friction    == IF s.m_num_args > 2 THEN GetArgFloat(s, 2) ELSE 0 - 1
        volume      == IF s.m_num_args > 3 THEN GetArgFloat(s, 3) ELSE 0 - 1
        surface     == IF s.m_num_args > 4 THEN GetArgFloat(s, 4) ELSE 0 - 1
        opt_str     == IF s.m_num_args > 5 THEN GetArgStr(s, 5) ELSE <<>>
        ror         == s.heap.nd[m_ror_node_defaults]
        r           == _ParseNodeOptions(s, opt_str)
        obj == [s.heap.nd[s.m_user_node_defaults] EXCEPT
                  !.load_weight = IF load_weight < 0 THEN ror.load_weight ELSE load_weight,
                  !.friction    = IF friction < 0 THEN ror.friction ELSE friction,
                  !.volume      = IF volume < 0 THEN ror.volume ELSE volume,
                  !.surface     = IF surface < 0 THEN ror.surface ELSE surface,
                  !.options     = r.options]
    IN  [r.s EXCEPT !.heap.nd[s.m_user_node_defaults] = obj]

ParseDirectiveSetNodeDefaults(s) ==
    IF ~CheckNumArgumentsGate(s, 2) THEN CheckNumArguments(s, 2)
    ELSE
    LET load_weight == GetArgFloat(s, 1)
        friction    == IF s.m_num_args > 2 THEN GetArgFloat(s, 2) ELSE 0 - 1
        volume      == IF s.m_num_args > 3 THEN GetArgFloat(s, 3) ELSE 0 - 1
        surface     == IF s.m_num_args > 4 THEN GetArgFloat(s, 4) ELSE 0 - 1
        opt_str     == IF s.m_num_args > 5 THEN GetArgStr(s, 5) ELSE <<>>
        ror         == s.heap.nd[m_ror_node_defaults]
        r           == _ParseNodeOptions(s, opt_str)
        obj == [s.heap.nd[s.m_user_node_defaults] EXCEPT
                  !.load_weight = IF load_weight < 0 THEN ror.load_weight ELSE load_weight,
                  !.friction    = IF friction < 0 THEN ror.friction ELSE friction,
                  !.volume      = IF volume < 0 THEN ror.volume ELSE volume,
                  !.surface     = IF surface < 0 THEN ror.surface ELSE surface,
                  !.options     = r.options]
    IN  [Alloc(r.s, "nd", obj) EXCEPT !.m_user_node_defaults = NewPtr(s, "nd")]

ParseDirectiveSetManagedMaterialsOptions(s) ==
    IF ~CheckNumArgumentsGate(s, 2) THEN CheckNumArguments(s, 2)
    ELSE [s EXCEPT !.m_current_managed_material_options.double_sided =
                        (GetArgChar(s, 1) /= "0")]

ParseDirectiveSetBeamDefaultsScale(s) ==
    IF ~CheckNumArgumentsGate(s, 5) THEN CheckNumArguments(s, 5)
    ELSE
    LET b0 == s.heap.bd[s.m_user_beam_defaults]
        b1 == [b0 EXCEPT !.scale.springiness = GetArgFloat(s, 1)]
        b2 == IF s.m_num_args > 2
              THEN [b1 EXCEPT !.scale.damping_constant = GetArgFloat(s, 2)] ELSE b1
        b3 == IF s.m_num_args > 3
              THEN [b2 EXCEPT !.scale.deformation_threshold_constant = GetArgFloat(s, 3)]
              ELSE b2
        b4 == IF s.m_num_args > 4
              THEN [b3 EXCEPT !.scale.breaking_threshold_constant = GetArgFloat(s, 4)]
              ELSE b3
    IN  [Alloc(s, "bd", b4) EXCEPT !.m_user_beam_defaults = NewPtr(s, "bd")]

\* mutant: a negative field keeps the value of the current defaults
ParseDirectiveSetBeamDefaults_Inherit(s) ==
    IF ~CheckNumArgumentsGate(s, 2) THEN CheckNumArguments(s, 2)
    ELSE
    LET cur == s.heap.bd[s.m_user_beam_defaults]
        n   == s.m_num_args
        d0  == [cur EXCEPT
                  !._enable_advanced_deformation =
                      ("enable_advanced_deformation" \in s.m_definition.flags),
                  !._is_user_defined = TRUE,
                  !.springiness = GetArgFloat(s, 1)]
        d1  == [d0 EXCEPT
                  !.damping_constant      = IF n > 2 THEN GetArgFloat(s, 2) ELSE @,
                  !.deformation_threshold = IF n > 3 THEN GetArgFloat(s, 3) ELSE @,
                  !.breaking_threshold    = IF n > 4 THEN GetArgFloat(s, 4) ELSE @,
                  !.visual_beam_diameter  = IF n > 5 THEN GetArgFloat(s, 5) ELSE @,
                  !.beam_material_name    = IF n > 6 THEN GetArgStr(s, 6) ELSE @,
                  !.plastic_deform_coef   = IF n > 7 THEN GetArgFloat(s, 7) ELSE @]
        d2  == [d1 EXCEPT
                  !._is_plastic_deform_coef_user_defined =
                      IF n > 7 /\ d1.plastic_deform_coef >= 0 THEN TRUE ELSE @]
        d3  == [d2 EXCEPT
                  !.springiness           = IF @ < 0 THEN cur.springiness ELSE @,
                  !.damping_constant      = IF @ < 0 THEN cur.damping_constant ELSE @,
                  !.deformation_threshold = IF @ < 0 THEN cur.deformation_threshold ELSE @,
                  !.breaking_threshold    = IF @ < 0 THEN cur.breaking_threshold ELSE @,
                  !.visual_beam_diameter  = IF @ < 0 THEN cur.visual_beam_diameter ELSE @,
                  !.plastic_deform_coef   = IF @ < 0 THEN cur.plastic_deform_coef ELSE @]
    IN  [Alloc(s, "bd", d3) EXCEPT !.m_user_beam_defaults = NewPtr(s, "bd")]

\* mutant: the directive writes into the object the records share
ParseDirectiveSetBeamDefaults_InPlace(s) ==
    IF ~CheckNumArgumentsGate(s, 2) THEN CheckNumArguments(s, 2)
    ELSE
    LET cur == s.heap.bd[s.m_user_beam_defaults]
        n   == s.m_num_args
        d0  == [cur EXCEPT
                  !._enable_advanced_deformation =
                      ("enable_advanced_deformation" \in s.m_definition.flags),
                  !._is_user_defined = TRUE,
                  !.springiness = GetArgFloat(s, 1)]
        d1  == [d0 EXCEPT
                  !.damping_constant      = IF n > 2 THEN GetArgFloat(s, 2) ELSE @,
                  !.deformation_threshold = IF n > 3 THEN GetArgFloat(s, 3) ELSE @,
                  !.breaking_threshold    = IF n > 4 THEN GetArgFloat(s, 4) ELSE @,
                  !.visual_beam_diameter  = IF n > 5 THEN GetArgFloat(s, 5) ELSE @,
                  !.beam_material_name    = IF n > 6 THEN GetArgStr(s, 6) ELSE @,
                  !.plastic_deform_coef   = IF n > 7 THEN GetArgFloat(s, 7) ELSE @]
        d2  == [d1 EXCEPT
                  !._is_plastic_deform_coef_user_defined =
                      IF n > 7 /\ d1.plastic_deform_coef >= 0 THEN TRUE ELSE @]
        d3  == [d2 EXCEPT
                  !.springiness           = IF @ < 0 THEN DEFAULT_SPRING ELSE @,
                  !.damping_constant      = IF @ < 0 THEN DEFAULT_DAMP ELSE @,
                  !.deformation_threshold = IF @ < 0 THEN BEAM_DEFORM ELSE @,
                  !.breaking_threshold    = IF @ < 0 THEN BEAM_BREAK ELSE @,
                  !.visual_beam_diameter  = IF @ < 0 THEN DEFAULT_BEAM_DIAMETER ELSE @,
                  !.plastic_deform_coef   = IF @ < 0 THEN cur.plastic_deform_coef ELSE @]
    IN  [s EXCEPT !.heap.bd[s.m_user_beam_defaults] = d3]

ParseDirectiveSetBeamDefaults(s) ==
    IF ~CheckNumArgumentsGate(s, 2) THEN CheckNumArguments(s, 2)
    ELSE
    LET cur == s.heap.bd[s.m_user_beam_defaults]
        n   == s.m_num_args
        d0  == [cur EXCEPT
                  !._enable_advanced_deformation =
                      ("enable_advanced_deformation" \in s.m_definition.flags),
                  !._is_user_defined = TRUE,
                  !.springiness = GetArgFloat(s, 1)]
        d1  == [d0 EXCEPT
                  !.damping_constant      = IF n > 2 THEN GetArgFloat(s, 2) ELSE @,
                  !.deformation_threshold = IF n > 3 THEN GetArgFloat(s, 3) ELSE @,
                  !.breaking_threshold    = IF n > 4 THEN GetArgFloat(s, 4) ELSE @,
                  !.visual_beam_diameter  = IF n > 5 THEN GetArgFloat(s, 5) ELSE @,
                  !.beam_material_name    = IF n > 6 THEN GetArgStr(s, 6) ELSE @,
                  !.plastic_deform_coef   = IF n > 7 THEN GetArgFloat(s, 7) ELSE @]
        d2  == [d1 EXCEPT
                  !._is_plastic_deform_coef_user_defined =
                      IF n > 7 /\ d1.plastic_deform_coef >= 0 THEN TRUE ELSE @]
        d3  == [d2 EXCEPT
                  !.springiness           = IF @ < 0 THEN DEFAULT_SPRING ELSE @,
                  !.damping_constant      = IF @ < 0 THEN DEFAULT_DAMP ELSE @,
                  !.deformation_threshold = IF @ < 0 THEN BEAM_DEFORM ELSE @,
                  !.breaking_threshold    = IF @ < 0 THEN BEAM_BREAK ELSE @,
                  !.visual_beam_diameter  = IF @ < 0 THEN DEFAULT_BEAM_DIAMETER ELSE @,
                  !.plastic_deform_coef   = IF @ < 0 THEN cur.plastic_deform_coef ELSE @]
    IN  [Alloc(s, "bd", d3) EXCEPT !.m_user_beam_defaults = NewPtr(s, "bd")]

ParseDirectiveSetDefaultMinimass(s) ==
    IF ~CheckNumArgumentsGate(s, 2) THEN CheckNumArguments(s, 2)
    ELSE [Alloc(s, "minimass", [min_mass_Kg |-> GetArgFloat(s, 1)])
            EXCEPT !.m_set_default_minimass = NewPtr(s, "minimass")]

\* mutant: a negative or omitted delay keeps the delay of the current link
ParseDirectiveSetInertiaDefaults_Inherit(s) ==
    IF ~CheckNumArgumentsGate(s, 2) THEN CheckNumArguments(s, 2)
    ELSE [Alloc(s, "inertia",
                [s.heap.inertia[s.m_user_default_inertia] EXCEPT
                   !.start_delay_factor =
                       IF GetArgFloat(s, 1) < 0 THEN @ ELSE GetArgFloat(s, 1),
                   !.stop_delay_factor =
                       IF s.m_num_args > 2 /\ ~(GetArgFloat(s, 2) < 0)
                       THEN GetArgFloat(s, 2) ELSE @,
                   !.start_function = IF s.m_num_args > 3 THEN GetArgStr(s, 3) ELSE @,
                   !.stop_function  = IF s.m_num_args > 4 THEN GetArgStr(s, 4) ELSE @])
            EXCEPT !.m_user_default_inertia = NewPtr(s, "inertia")]

ParseDirectiveSetInertiaDefaults(s) ==
    IF ~CheckNumArgumentsGate(s, 2) THEN CheckNumArguments(s, 2)
    ELSE
    LET start_delay == GetArgFloat(s, 1)
        stop_delay  == IF s.m_num_args > 2 THEN GetArgFloat(s, 2) ELSE 0
    IN  IF start_delay < 0 \/ stop_delay < 0
        THEN [s EXCEPT !.m_user_default_inertia = m_ror_default_inertia]
        ELSE
        LET i == [s.heap.inertia[s.m_user_default_inertia] EXCEPT
                    !.start_delay_factor = start_delay,
                    !.stop_delay_factor  = stop_delay,
                    !.start_function = IF s.m_num_args > 3 THEN GetArgStr(s, 3) ELSE @,
                    !.stop_function  = IF s.m_num_args > 4 THEN GetArgStr(s, 4) ELSE @]
        IN  [Alloc(s, "inertia", i) EXCEPT !.m_user_default_inertia = NewPtr(s, "inertia")]

ParseDirectiveDetacherGroup(s) ==
    IF ~CheckNumArgumentsGate(s, 2) THEN CheckNumArguments(s, 2)
    ELSE IF GetArgStr(s, 1) = <<"e", "n", "d">>
    THEN [s EXCEPT !.m_current_detacher_group = 0]
    ELSE LET r == GetArgInt(s, 1)
         IN  [r.s EXCEPT !.m_current_detacher_group = r.res]

\* mutant: enable_advanced_deformation also marks the current beam defaults
ProcessGlobalDirective_Retroactive(s, keyword) ==
    IF keyword = "enable_advanced_deformation"
    THEN [s EXCEPT !.m_definition.flags = @ \cup {keyword},
                   !.heap.bd[s.m_user_beam_defaults]._enable_advanced_deformation = TRUE]
    ELSE [s EXCEPT !.m_definition.flags = @ \cup {keyword}]

\* directives without arguments set a flag of the File
ProcessGlobalDirective(s, keyword) ==
    [s EXCEPT !.m_definition.flags = @ \cup {keyword}]

(***************************************************************************)
(* Block and module state machine.                                         *)
(***************************************************************************)
\* BeginBlock(KEYWORD_INVALID), the branch that closes: commit the staged
\* submesh, commit the staged camera rail unless it is empty
FlushStaged(s) ==
    LET s1 == IF s.m_current_submesh /= <<>>
              THEN [PushBack(s, "submeshes", s.m_current_submesh[1])
                      EXCEPT !.m_current_submesh = <<>>]
              ELSE s
    IN  IF s1.m_current_camera_rail /= <<>>
        THEN IF Len(s1.m_current_camera_rail[1].nodes) = 0
             THEN LogMessage(s1, CONSOLE_SYSTEM_WARNING,
                             "Empty section 'camerarail', ignoring...")
             ELSE [PushBack(s1, "camerarail", s1.m_current_camera_rail[1])
                     EXCEPT !.m_current_camera_rail = <<>>]
        ELSE s1

NewCameraRail == [nodes |-> <<>>]

NewSubmesh == [backmesh |-> FALSE, texcoords |-> <<>>, cab_triangles |-> <<>>]

\* mutant: every keyword closes the staged objects before its block opens
BeginBlock_FlushOnAnyKeyword(s, keyword) ==
    IF keyword = "camerarail"
    THEN [FlushStaged(s) EXCEPT !.m_current_camera_rail = <<NewCameraRail>>,
                                !.m_current_block = keyword]
    ELSE [FlushStaged(s) EXCEPT !.m_current_block = keyword]

BeginBlock(s, keyword) ==
    IF keyword = KEYWORD_INVALID
    THEN [FlushStaged(s) EXCEPT !.m_current_block = keyword]
    ELSE IF keyword = "camerarail"
    THEN [FlushStaged(s) EXCEPT !.m_current_camera_rail = <<NewCameraRail>>,
                                !.m_current_block = keyword]
    ELSE [s EXCEPT !.m_current_block = keyword]

ParseDirectiveSubmesh(s) ==
    [BeginBlock(s, KEYWORD_INVALID) EXCEPT !.m_current_submesh = <<NewSubmesh>>]

ParseDirectiveBackmesh(s) ==
    IF s.m_current_submesh /= <<>>
    THEN [s EXCEPT !.m_current_submesh[1].backmesh = TRUE]
    ELSE LogMessage(s, CONSOLE_SYSTEM_ERROR, "must come after 'submesh'")

\* m_definition->user_modules.find(name): index of the entry, 0 for end()
UserModulesFind(user_modules, name) ==
    IF \E i \in DOMAIN user_modules : user_modules[i].name = name
    THEN CHOOSE i \in DOMAIN user_modules : user_modules[i].name = name
    ELSE 0

\* std::map::insert: no effect when the key is present
UserModulesInsert(user_modules, name, ptr) ==
    IF UserModulesFind(user_modules, name) /= 0 THEN user_modules
    ELSE Append(user_modules, [name |-> name, module |-> ptr])

m_root_module == 1

\* mutant: a section line always makes a new Module object
ProcessChangeModuleLine_AlwaysNew(s, keyword) ==
    IF keyword = "end_section" /\ s.m_current_module = m_root_module
    THEN LogMessage(s, CONSOLE_SYSTEM_ERROR,
                    "Misplaced keyword 'end_section' (already in root module), ignoring...")
    ELSE IF keyword = "section" /\ ~CheckNumArgumentsGate(s, 3)
    THEN CheckNumArguments(s, 3)
    ELSE IF keyword = "section" /\ GetArgStr(s, 2) = s.modules[s.m_current_module].name
    THEN LogMessage(s, CONSOLE_SYSTEM_ERROR,
                    "Attempt to re-enter current module, ignoring...")
    ELSE
    LET new_module_name == IF keyword = "end_section" THEN ROOT_MODULE_NAME
                           ELSE GetArgStr(s, 2)
        s1 == BeginBlock(s, KEYWORD_INVALID)
        found == UserModulesFind(s1.m_definition.user_modules, new_module_name)
    IN  IF new_module_name = ROOT_MODULE_NAME
        THEN [s1 EXCEPT !.m_current_module = m_root_module]
        ELSE IF FALSE
        THEN [s1 EXCEPT !.m_current_module = s1.m_definition.user_modules[found].module]
        ELSE [s1 EXCEPT
                !.modules = Append(@, NewModule(new_module_name)),
                !.m_current_module = Len(s1.modules) + 1,
                !.m_definition.user_modules =
                    UserModulesInsert(@, new_module_name, Len(s1.modules) + 1)]

\* mutant: the staged objects are flushed after the switch, into the module
\* entered
ProcessChangeModuleLine_FlushAfterSwitch(s, keyword) ==
    IF keyword = "end_section" /\ s.m_current_module = m_root_module
    THEN LogMessage(s, CONSOLE_SYSTEM_ERROR,
                    "Misplaced keyword 'end_section' (already in root module), ignoring...")
    ELSE IF keyword = "section" /\ ~CheckNumArgumentsGate(s, 3)
    THEN CheckNumArguments(s, 3)
    ELSE IF keyword = "section" /\ GetArgStr(s, 2) = s.modules[s.m_current_module].name
    THEN LogMessage(s, CONSOLE_SYSTEM_ERROR,
                    "Attempt to re-enter current module, ignoring...")
    ELSE
    LET new_module_name == IF keyword = "end_section" THEN ROOT_MODULE_NAME
                           ELSE GetArgStr(s, 2)
        found == UserModulesFind(s.m_definition.user_modules, new_module_name)
    IN  IF new_module_name = ROOT_MODULE_NAME
        THEN BeginBlock([s EXCEPT !.m_current_module = m_root_module], KEYWORD_INVALID)
        ELSE IF found /= 0
        THEN BeginBlock([s EXCEPT !.m_current_module =
                                      s.m_definition.user_modules[found].module],
                        KEYWORD_INVALID)
        ELSE BeginBlock([s EXCEPT
                !.modules = Append(@, NewModule(new_module_name)),
                !.m_current_module = Len(s.modules) + 1,
                !.m_definition.user_modules =
                    UserModulesInsert(@, new_module_name, Len(s.modules) + 1)],
                KEYWORD_INVALID)

ProcessChangeModuleLine(s, keyword) ==
    IF keyword = "end_section" /\ s.m_current_module = m_root_module
    THEN LogMessage(s, CONSOLE_SYSTEM_ERROR,
                    "Misplaced keyword 'end_section' (already in root module), ignoring...")
    ELSE IF keyword = "section" /\ ~CheckNumArgumentsGate(s, 3)
    THEN CheckNumArguments(s, 3)
    ELSE IF keyword = "section" /\ GetArgStr(s, 2) = s.modules[s.m_current_module].name
    THEN LogMessage(s, CONSOLE_SYSTEM_ERROR,
                    "Attempt to re-enter current module, ignoring...")
    ELSE
    LET new_module_name == IF keyword = "end_section" THEN ROOT_MODULE_NAME
                           ELSE GetArgStr(s, 2)
        s1 == BeginBlock(s, KEYWORD_INVALID)
        found == UserModulesFind(s1.m_definition.user_modules, new_module_name)
    IN  IF new_module_name = ROOT_MODULE_NAME
        THEN [s1 EXCEPT !.m_current_module = m_root_module]
        ELSE IF found /= 0
        THEN [s1 EXCEPT !.m_current_module = s1.m_definition.user_modules[found].module]
        ELSE [s1 EXCEPT
                !.modules = Append(@, NewModule(new_module_name)),
                !.m_current_module = Len(s1.modules) + 1,
                !.m_definition.user_modules =
                    UserModulesInsert(@, new_module_name, Len(s1.modules) + 1)]

\* mutant: the switch leaves the open block as it was
ParseDirectiveSection_KeepBlock(s) ==
    [ProcessChangeModuleLine(s, "section") EXCEPT !.m_current_block = s.m_current_block]

\* mutant: entering a module starts from detacher group 0
ParseDirectiveSection_ResetsDetacherGroup(s) ==
    IF ProcessChangeModuleLine(s, "section").m_current_module = s.m_current_module
    THEN ProcessChangeModuleLine(s, "section")
    ELSE [ProcessChangeModuleLine(s, "section") EXCEPT !.m_current_detacher_group = 0]

ParseDirectiveSection(s) == ProcessChangeModuleLine(s, "section")

(***************************************************************************)
(* Record parsers of the sections.                                         *)
(***************************************************************************)
\* mutant: a nodes2 line does not record that a named node was defined
ParseNodesUnified_NoNamedFlag(s) ==
    IF ~CheckNumArgumentsGate(s, 4) THEN CheckNumArguments(s, 4)
    ELSE
    LET node0 == [node_defaults |-> s.m_user_node_defaults,
                  beam_defaults |-> s.m_user_beam_defaults,
                  default_minimass |-> s.m_set_default_minimass,
                  detacher_group |-> s.m_current_detacher_group,
                  options |-> {},
                  load_weight_override |-> 0,
                  _has_load_weight_override |-> FALSE]
        named == s.m_current_block = "nodes2"
        num   == GetArgUint(s, 0)
        s1 == IF named
              THEN ImporterAdd(s, [kind |-> "named", name |-> GetArgStr(s, 0)])
              ELSE ImporterAdd(num.s, [kind |-> "numbered", num |-> num.res])
        id == IF named THEN [str |-> GetArgStr(s, 0), num |-> 0]
              ELSE [str |-> <<>>, num |-> num.res]
        position == <<GetArgFloat(s, 1), GetArgFloat(s, 2), GetArgFloat(s, 3)>>
        r  == IF s.m_num_args > 4 THEN _ParseNodeOptions(s1, GetArgStr(s, 4))
              ELSE [options |-> node0.options, s |-> s1]
        hasl == "l" \in r.options
        s2 == IF s.m_num_args > 5 /\ ~hasl
              THEN LogMessage(r.s, CONSOLE_SYSTEM_WARNING,
                              "Node has load-weight-override value specified, but option 'l' is not present. Ignoring value...")
              ELSE r.s
        node == [node0 EXCEPT
                   !.options = r.options,
                   !.load_weight_override =
                       IF s.m_num_args > 5 /\ hasl THEN GetArgFloat(s, 5) ELSE @,
                   !._has_load_weight_override =
                       IF s.m_num_args > 5 /\ hasl THEN TRUE ELSE @]
    IN  PushBack(s2, "nodes", node @@ [id |-> id, position |-> position])

ParseNodesUnified(s) ==
    IF ~CheckNumArgumentsGate(s, 4) THEN CheckNumArguments(s, 4)
    ELSE
    LET node0 == [node_defaults |-> s.m_user_node_defaults,
                  beam_defaults |-> s.m_user_beam_defaults,
                  default_minimass |-> s.m_set_default_minimass,
                  detacher_group |-> s.m_current_detacher_group,
                  options |-> {},
                  load_weight_override |-> 0,
                  _has_load_weight_override |-> FALSE]
        named == s.m_current_block = "nodes2"
        num   == GetArgUint(s, 0)
        s1 == IF named
              THEN [ImporterAdd(s, [kind |-> "named", name |-> GetArgStr(s, 0)])
                      EXCEPT !.m_any_named_node_defined = TRUE]
              ELSE ImporterAdd(num.s, [kind |-> "numbered", num |-> num.res])
        id == IF named THEN [str |-> GetArgStr(s, 0), num |-> 0]
              ELSE [str |-> <<>>, num |-> num.res]
        position == <<GetArgFloat(s, 1), GetArgFloat(s, 2), GetArgFloat(s, 3)>>
        r  == IF s.m_num_args > 4 THEN _ParseNodeOptions(s1, GetArgStr(s, 4))
              ELSE [options |-> node0.options, s |-> s1]
        hasl == "l" \in r.options
        s2 == IF s.m_num_args > 5 /\ ~hasl
              THEN LogMessage(r.s, CONSOLE_SYSTEM_WARNING,
                              "Node has load-weight-override value specified, but option 'l' is not present. Ignoring value...")
              ELSE r.s
        node == [node0 EXCEPT
                   !.options = r.options,
                   !.load_weight_override =
                       IF s.m_num_args > 5 /\ hasl THEN GetArgFloat(s, 5) ELSE @,
                   !._has_load_weight_override =
                       IF s.m_num_args > 5 /\ hasl THEN TRUE ELSE @]
    IN  PushBack(s2, "nodes", node @@ [id |-> id, position |-> position])

\* the flags loop of ParseBeams; r = [options, s]
RECURSIVE BeamOptionLoop(_, _)
BeamOptionLoop(r, str) ==
    IF str = <<>> THEN r
    ELSE LET c == Head(str)
             r1 == IF c = "v" THEN r
                   ELSE IF c \in {"i", "r", "s"} THEN [r EXCEPT !.options = @ \cup {c}]
                   ELSE [r EXCEPT !.s = LogMessage(@, CONSOLE_SYSTEM_WARNING,
                                                   "ignoring invalid option")]
         IN  BeamOptionLoop(r1, Tail(str))

ParseBeams(s) ==
    IF ~CheckNumArgumentsGate(s, 2) THEN CheckNumArguments(s, 2)
    ELSE
    LET r == IF s.m_num_args > 2
             THEN BeamOptionLoop([options |-> {}, s |-> s], GetArgStr(s, 2))
             ELSE [options |-> {}, s |-> s]
        support == s.m_num_args > 3 /\ "s" \in r.options
        f  == IF support THEN GetArgInt(r.s, 3) ELSE [res |-> 0, s |-> r.s]
        beam == [defaults |-> s.m_user_beam_defaults,
                 detacher_group |-> s.m_current_detacher_group,
                 nodes |-> <<GetArgNodeRef(s, 0), GetArgNodeRef(s, 1)>>,
                 options |-> r.options,
                 extension_break_limit |-> IF support /\ f.res > 0 THEN f.res ELSE 0,
                 _has_extension_break_limit |-> support]
    IN  PushBack(f.s, "beams", beam)

\* ParseOptionalInertia(inertia, index) on a default-constructed Inertia
ParseOptionalInertia(s, index) ==
    [NewInertia EXCEPT
       !.start_delay_factor = IF s.m_num_args > index THEN GetArgFloat(s, index) ELSE @,
       !.stop_delay_factor  = IF s.m_num_args > index + 1 THEN GetArgFloat(s, index + 1) ELSE @,
       !.start_function     = IF s.m_num_args > index + 2 THEN GetArgStr(s, index + 2) ELSE @,
       !.stop_function      = IF s.m_num_args > index + 3 THEN GetArgStr(s, index + 3) ELSE @]

ParseHydros(s) ==
    IF ~CheckNumArgumentsGate(s, 3) THEN CheckNumArguments(s, 3)
    ELSE PushBack(s, "hydros",
            [inertia_defaults |-> s.m_user_default_inertia,
             detacher_group |-> s.m_current_detacher_group,
             beam_defaults |-> s.m_user_beam_defaults,
             nodes |-> <<GetArgNodeRef(s, 0), GetArgNodeRef(s, 1)>>,
             lenghtening_factor |-> GetArgFloat(s, 2),
             options |-> IF s.m_num_args > 3 THEN GetArgStr(s, 3) ELSE <<>>,
             inertia |-> ParseOptionalInertia(s, 4)])

GetArgMinimassOption(s, index) ==
    IF GetArgChar(s, index) \in {"l", "n"}
    THEN [res |-> GetArgChar(s, index), s |-> s]
    ELSE [res |-> "n",
          s |-> LogMessage(s, CONSOLE_SYSTEM_WARNING, "Not a valid minimass option")]

\* mutant: the section stays open after its line
ParseMinimass_StaysOpen(s) ==
    IF ~CheckNumArgumentsGate(s, 1) THEN CheckNumArguments(s, 1)
    ELSE
    LET o == IF s.m_num_args > 1 THEN GetArgMinimassOption(s, 1)
             ELSE [res |-> "n", s |-> s]
        mm == [global_min_mass_Kg |-> GetArgFloat(s, 0), option |-> o.res]
    IN  PushBack(o.s, "minimass", mm)

ParseMinimass(s) ==
    IF ~CheckNumArgumentsGate(s, 1) THEN CheckNumArguments(s, 1)
    ELSE
    LET o == IF s.m_num_args > 1 THEN GetArgMinimassOption(s, 1)
             ELSE [res |-> "n", s |-> s]
        mm == [global_min_mass_Kg |-> GetArgFloat(s, 0), option |-> o.res]
    IN  [PushBack(o.s, "minimass", mm) EXCEPT !.m_current_block = KEYWORD_INVALID]

\* the forward gears of ParseEngine: the ratios from argument i up to the first negative
RECURSIVE EngineGearRatios(_, _)
EngineGearRatios(s, i) ==
    IF ~(i < s.m_num_args) \/ GetArgFloat(s, i) < 0 THEN <<>>
    ELSE <<GetArgFloat(s, i)>> \o EngineGearRatios(s, i + 1)

\* mutant: an engine without forward gear is stored all the same
ParseEngine_StoresGearless(s) ==
    IF ~CheckNumArgumentsGate(s, 6) THEN CheckNumArguments(s, 6)
    ELSE PushBack(s, "engine",
                  [shift_down_rpm |-> GetArgFloat(s, 0),
                   shift_up_rpm |-> GetArgFloat(s, 1),
                   torque |-> GetArgFloat(s, 2),
                   global_gear_ratio |-> GetArgFloat(s, 3),
                   reverse_gear_ratio |-> GetArgFloat(s, 4),
                   neutral_gear_ratio |-> GetArgFloat(s, 5),
                   gear_ratios |-> EngineGearRatios(s, 6)])

ParseEngine(s) ==
    IF ~CheckNumArgumentsGate(s, 6) THEN CheckNumArguments(s, 6)
    ELSE
    LET engine == [shift_down_rpm |-> GetArgFloat(s, 0),
                   shift_up_rpm |-> GetArgFloat(s, 1),
                   torque |-> GetArgFloat(s, 2),
                   global_gear_ratio |-> GetArgFloat(s, 3),
                   reverse_gear_ratio |-> GetArgFloat(s, 4),
                   neutral_gear_ratio |-> GetArgFloat(s, 5),
                   gear_ratios |-> EngineGearRatios(s, 6)]
    IN  IF Len(engine.gear_ratios) = 0
        THEN LogMessage(s, CONSOLE_SYSTEM_ERROR, "no forward gear")
        ELSE PushBack(s, "engine", engine)

ParseAuthor(s) ==
    IF ~CheckNumArgumentsGate(s, 2) THEN CheckNumArguments(s, 2)
    ELSE
    LET f == IF s.m_num_args > 2 THEN GetArgInt(s, 2) ELSE [res |-> 0, s |-> s]
        author == [type |-> IF s.m_num_args > 1 THEN GetArgStr(s, 1) ELSE <<>>,
                   forum_account_id |-> f.res,
                   _has_forum_account |-> s.m_num_args > 2,
                   name |-> IF s.m_num_args > 3 THEN GetArgStr(s, 3) ELSE <<>>,
                   email |-> IF s.m_num_args > 4 THEN GetArgStr(s, 4) ELSE <<>>]
    IN  [PushBack(f.s, "author", author) EXCEPT !.m_current_block = KEYWORD_INVALID]

ParseFileFormatVersion(s) ==
    IF ~CheckNumArgumentsGate(s, 2) THEN CheckNumArguments(s, 2)
    ELSE LET v == GetArgInt(s, 1)
         IN  [PushBack(v.s, "fileformatversion", [version |-> v.res])
                EXCEPT !.m_current_block = KEYWORD_INVALID]

ParseFileinfo(s) ==
    IF ~CheckNumArgumentsGate(s, 2) THEN CheckNumArguments(s, 2)
    ELSE
    LET c == IF s.m_num_args > 2 THEN GetArgInt(s, 2) ELSE [res |-> 0 - 1, s |-> s]
        v == IF s.m_num_args > 3 THEN GetArgInt(c.s, 3) ELSE [res |-> 0, s |-> c.s]
    IN  [PushBack(v.s, "fileinfo",
                  [unique_id |-> GetArgStr(s, 1), category_id |-> c.res,
                   file_version |-> v.res])
           EXCEPT !.m_current_block = KEYWORD_INVALID]

\* Ogre::ResourceGroupManager::resourceExists: the resource group of the
\* model holds every texture except the one named "missing"
ResourceExists(tex) == tex /= <<"missing">>

GetArgManagedTex(s, index) ==
    IF Head(GetArgStr(s, index)) /= "-" THEN GetArgStr(s, index) ELSE <<>>

ManagedMatHasTex(tex) == tex /= <<>> /\ tex /= <<"-">>

ParseManagedMaterials(s) ==
    IF ~CheckNumArgumentsGate(s, 2) THEN CheckNumArguments(s, 2)
    ELSE
    LET type_str == GetArgStr(s, 1)
        mesh == type_str \in {<<"mesh_standard">>, <<"mesh_transparent">>}
        flex == type_str \in {<<"flexmesh_standard">>, <<"flexmesh_transparent">>}
        mat == [options |-> s.m_current_managed_material_options,
                name |-> GetArgStr(s, 0),
                type |-> type_str,
                diffuse_map |-> GetArgStr(s, 2),
                damaged_diffuse_map |->
                    IF flex /\ s.m_num_args > 3 THEN GetArgManagedTex(s, 3) ELSE <<>>,
                specular_map |->
                    IF mesh /\ s.m_num_args > 3 THEN GetArgManagedTex(s, 3)
                    ELSE IF flex /\ s.m_num_args > 4 THEN GetArgManagedTex(s, 4)
                    ELSE <<>>]
    IN  IF ~(mesh \/ flex)
        THEN LogMessage(s, CONSOLE_SYSTEM_WARNING, "is an unkown effect")
        ELSE IF ~CheckNumArgumentsGate(s, 3) THEN CheckNumArguments(s, 3)
        ELSE IF ~ResourceExists(mat.diffuse_map)
        THEN LogMessage(s, CONSOLE_SYSTEM_WARNING, "Missing texture file")
        ELSE
        LET dmiss == ManagedMatHasTex(mat.damaged_diffuse_map)
                     /\ ~ResourceExists(mat.damaged_diffuse_map)
            s1 == IF dmiss THEN LogMessage(s, CONSOLE_SYSTEM_WARNING, "Missing texture file")
                  ELSE s
            smiss == ManagedMatHasTex(mat.specular_map)
                     /\ ~ResourceExists(mat.specular_map)
            s2 == IF smiss THEN LogMessage(s1, CONSOLE_SYSTEM_WARNING, "Missing texture file")
                  ELSE s1
        IN  PushBack(s2, "managedmaterials",
                     [mat EXCEPT !.damaged_diffuse_map = IF dmiss THEN <<"-">> ELSE @,
                                 !.specular_map = IF smiss THEN <<"-">> ELSE @])

\* the options loop of ParseCab; r = [options, s]
RECURSIVE CabOptionLoop(_, _)
CabOptionLoop(r, str) ==
    IF str = <<>> THEN r
    ELSE LET c == Head(str)
             r1 == CASE c = "c" -> [r EXCEPT !.options = @ \cup {"c"}]
                     [] c = "b" -> [r EXCEPT !.options = @ \cup {"b"}]
                     [] c = "D" -> [r EXCEPT !.options = @ \cup {"c", "b"}]
                     [] c = "p" -> [r EXCEPT !.options = @ \cup {"p"}]
                     [] c = "u" -> [r EXCEPT !.options = @ \cup {"u"}]
                     [] c = "F" -> [r EXCEPT !.options = @ \cup {"p", "b"}]
                     [] c = "S" -> [r EXCEPT !.options = @ \cup {"u", "b"}]
                     [] c = "n" -> r
                     [] OTHER -> [r EXCEPT !.s = LogMessage(@, CONSOLE_SYSTEM_WARNING,
                                                            "ignoring invalid option")]
         IN  CabOptionLoop(r1, Tail(str))

\* m_current_submesh-> on nullptr ends the parse: the stream is never read again
NullDereference(s) == [s EXCEPT !.stream = "crashed"]

ParseCab(s) ==
    IF ~CheckNumArgumentsGate(s, 3) THEN CheckNumArguments(s, 3)
    ELSE
    LET r == IF s.m_num_args > 3
             THEN CabOptionLoop([options |-> {}, s |-> s], GetArgStr(s, 3))
             ELSE [options |-> {}, s |-> s]
        cab == [nodes |-> <<GetArgNodeRef(s, 0), GetArgNodeRef(s, 1), GetArgNodeRef(s, 2)>>,
                options |-> r.options]
    IN  IF r.s.m_current_submesh = <<>> THEN NullDereference(r.s)
        ELSE [r.s EXCEPT !.m_current_submesh[1].cab_triangles = Append(@, cab)]

ParseTexcoords(s) ==
    IF ~CheckNumArgumentsGate(s, 3) THEN CheckNumArguments(s, 3)
    ELSE IF s.m_current_submesh = <<>> THEN NullDereference(s)
    ELSE [s EXCEPT !.m_current_submesh[1].texcoords =
                       Append(@, [node |-> GetArgNodeRef(s, 0),
                                  u |-> GetArgFloat(s, 1), v |-> GetArgFloat(s, 2)])]

ParseCameraRails(s) ==
    IF s.m_current_camera_rail = <<>> THEN NullDereference(s)
    ELSE [s EXCEPT !.m_current_camera_rail[1].nodes = Append(@, GetArgNodeRef0(s))]

\* mutant: the wheel line registers no request for implicit nodes
ParseWheel_NoRequest(s) ==
    IF ~CheckNumArgumentsGate(s, 14) THEN CheckNumArguments(s, 14)
    ELSE
    LET num_rays   == GetArgInt(s, 2)
        braking    == GetArgBraking(num_rays.s, 6)
        propulsion == GetArgPropulsion(braking.s, 7)
        wheel == [node_defaults |-> s.m_user_node_defaults,
                  beam_defaults |-> s.m_user_beam_defaults,
                  radius |-> GetArgFloat(s, 0), width |-> GetArgFloat(s, 1),
                  num_rays |-> num_rays.res,
                  nodes |-> <<GetArgNodeRef(s, 3), GetArgNodeRef(s, 4)>>,
                  rigidity_node |-> GetArgRigidityNode(s, 5),
                  braking |-> braking.res, propulsion |-> propulsion.res,
                  reference_arm_node |-> GetArgNodeRef(s, 8),
                  mass |-> GetArgFloat(s, 9), springiness |-> GetArgFloat(s, 10),
                  damping |-> GetArgFloat(s, 11),
                  face_material_name |-> GetArgStr(s, 12),
                  band_material_name |-> GetArgStr(s, 13)]
    IN  PushBack(propulsion.s, "wheels", wheel)

ParseWheel(s) ==
    IF ~CheckNumArgumentsGate(s, 14) THEN CheckNumArguments(s, 14)
    ELSE
    LET num_rays   == GetArgInt(s, 2)
        braking    == GetArgBraking(num_rays.s, 6)
        propulsion == GetArgPropulsion(braking.s, 7)
        wheel == [node_defaults |-> s.m_user_node_defaults,
                  beam_defaults |-> s.m_user_beam_defaults,
                  radius |-> GetArgFloat(s, 0), width |-> GetArgFloat(s, 1),
                  num_rays |-> num_rays.res,
                  nodes |-> <<GetArgNodeRef(s, 3), GetArgNodeRef(s, 4)>>,
                  rigidity_node |-> GetArgRigidityNode(s, 5),
                  braking |-> braking.res, propulsion |-> propulsion.res,
                  reference_arm_node |-> GetArgNodeRef(s, 8),
                  mass |-> GetArgFloat(s, 9), springiness |-> GetArgFloat(s, 10),
                  damping |-> GetArgFloat(s, 11),
                  face_material_name |-> GetArgStr(s, 12),
                  band_material_name |-> GetArgStr(s, 13)]
        s1 == ImporterAdd(propulsion.s,
                          [kind |-> "wheel", keyword |-> "wheels",
                           num_rays |-> wheel.num_rays,
                           has_rigidity_node |-> IsValidAnyState(wheel.rigidity_node)])
    IN  PushBack(s1, "wheels", wheel)

GetArgWheelSide(s, index) ==
    LET side_char == GetArgChar(s, index)
    IN  IF side_char = "r" THEN [res |-> "SIDE_RIGHT", s |-> s]
        ELSE IF side_char = "l" THEN [res |-> "SIDE_LEFT", s |-> s]
        ELSE [res |-> "SIDE_LEFT",
              s |-> LogMessage(s, CONSOLE_SYSTEM_WARNING,
                               "Bad arg 'side', parsing as 'l' for backwards compatibility.")]

ParseWheel2(s) ==
    IF ~CheckNumArgumentsGate(s, 17) THEN CheckNumArguments(s, 17)
    ELSE
    LET num_rays   == GetArgInt(s, 3)
        braking    == GetArgBraking(num_rays.s, 7)
        propulsion == GetArgPropulsion(braking.s, 8)
        wheel_2 == [node_defaults |-> s.m_user_node_defaults,
                    beam_defaults |-> s.m_user_beam_defaults,
                    rim_radius |-> GetArgFloat(s, 0), tyre_radius |-> GetArgFloat(s, 1),
                    width |-> GetArgFloat(s, 2),
                    num_rays |-> num_rays.res,
                    nodes |-> <<GetArgNodeRef(s, 4), GetArgNodeRef(s, 5)>>,
                    rigidity_node |-> GetArgRigidityNode(s, 6),
                    braking |-> braking.res, propulsion |-> propulsion.res,
                    reference_arm_node |-> GetArgNodeRef(s, 9),
                    mass |-> GetArgFloat(s, 10),
                    rim_springiness |-> GetArgFloat(s, 11),
                    rim_damping |-> GetArgFloat(s, 12),
                    tyre_springiness |-> GetArgFloat(s, 13),
                    tyre_damping |-> GetArgFloat(s, 14),
                    face_material_name |-> GetArgStr(s, 15),
                    band_material_name |-> GetArgStr(s, 16)]
        s1 == ImporterAdd(propulsion.s,
                          [kind |-> "wheel", keyword |-> "wheels2",
                           num_rays |-> wheel_2.num_rays,
                           has_rigidity_node |-> IsValidAnyState(wheel_2.rigidity_node)])
    IN  PushBack(s1, "wheels_2", wheel_2)

ParseMeshWheelUnified(s) ==
    IF ~CheckNumArgumentsGate(s, 16) THEN CheckNumArguments(s, 16)
    ELSE
    LET num_rays   == GetArgInt(s, 3)
        braking    == GetArgBraking(num_rays.s, 7)
        propulsion == GetArgPropulsion(braking.s, 8)
        side       == GetArgWheelSide(propulsion.s, 13)
        mesh_wheel == [_is_meshwheel2 |-> (s.m_current_block = "meshwheels2"),
                       node_defaults |-> s.m_user_node_defaults,
                       beam_defaults |-> s.m_user_beam_defaults,
                       tyre_radius |-> GetArgFloat(s, 0), rim_radius |-> GetArgFloat(s, 1),
                       width |-> GetArgFloat(s, 2),
                       num_rays |-> num_rays.res,
                       nodes |-> <<GetArgNodeRef(s, 4), GetArgNodeRef(s, 5)>>,
                       rigidity_node |-> GetArgRigidityNode(s, 6),
                       braking |-> braking.res, propulsion |-> propulsion.res,
                       reference_arm_node |-> GetArgNodeRef(s, 9),
                       mass |-> GetArgFloat(s, 10),
                       spring |-> GetArgFloat(s, 11), damping |-> GetArgFloat(s, 12),
                       side |-> side.res,
                       mesh_name |-> GetArgStr(s, 14),
                       material_name |-> GetArgStr(s, 15)]
        keyword == IF mesh_wheel._is_meshwheel2 THEN "meshwheels2" ELSE "meshwheels"
        s1 == ImporterAdd(side.s,
                          [kind |-> "wheel", keyword |-> keyword,
                           num_rays |-> mesh_wheel.num_rays,
                           has_rigidity_node |-> IsValidAnyState(mesh_wheel.rigidity_node)])
    IN  PushBack(s1, "mesh_wheels", mesh_wheel)

ParseFlexBodyWheel(s) ==
    IF ~CheckNumArgumentsGate(s, 16) THEN CheckNumArguments(s, 16)
    ELSE
    LET num_rays   == GetArgInt(s, 3)
        braking    == GetArgBraking(num_rays.s, 7)
        propulsion == GetArgPropulsion(braking.s, 8)
        side       == GetArgWheelSide(propulsion.s, 15)
        flexbody_wheel ==
            [node_defaults |-> s.m_user_node_defaults,
             beam_defaults |-> s.m_user_beam_defaults,
             tyre_radius |-> GetArgFloat(s, 0), rim_radius |-> GetArgFloat(s, 1),
             width |-> GetArgFloat(s, 2),
             num_rays |-> num_rays.res,
             nodes |-> <<GetArgNodeRef(s, 4), GetArgNodeRef(s, 5)>>,
             rigidity_node |-> GetArgRigidityNode(s, 6),
             braking |-> braking.res, propulsion |-> propulsion.res,
             reference_arm_node |-> GetArgNodeRef(s, 9),
             mass |-> GetArgFloat(s, 10),
             tyre_springiness |-> GetArgFloat(s, 11), tyre_damping |-> GetArgFloat(s, 12),
             rim_springiness |-> GetArgFloat(s, 13), rim_damping |-> GetArgFloat(s, 14),
             side |-> side.res,
             rim_mesh_name |-> IF s.m_num_args > 16 THEN GetArgStr(s, 16) ELSE <<>>,
             tyre_mesh_name |-> IF s.m_num_args > 17 THEN GetArgStr(s, 17) ELSE <<>>]
        s1 == ImporterAdd(side.s,
                          [kind |-> "wheel", keyword |-> "flexbodywheels",
                           num_rays |-> flexbody_wheel.num_rays,
                           has_rigidity_node |->
                               IsValidAnyState(flexbody_wheel.rigidity_node)])
    IN  PushBack(s1, "flexbodywheels", flexbody_wheel)

\* the record of a cinecam line; spring, damping and node_mass are <<>>
\* where the line leaves the value of the constructor of Cinecam
CinecamRecord(s) ==
    [beam_defaults |-> s.m_user_beam_defaults,
     node_defaults |-> s.m_user_node_defaults,
     position |-> <<GetArgFloat(s, 0), GetArgFloat(s, 1), GetArgFloat(s, 2)>>,
     nodes |-> [i \in 1..8 |-> GetArgNodeRef(s, i + 2)],
     spring  |-> IF s.m_num_args > 11 THEN <<GetArgFloat(s, 11)>> ELSE <<>>,
     damping |-> IF s.m_num_args > 12 THEN <<GetArgFloat(s, 12)>> ELSE <<>>,
     node_mass |-> IF s.m_num_args > 13 /\ GetArgFloat(s, 13) > 0
                   THEN <<GetArgFloat(s, 13)>> ELSE <<>>]

\* mutant: the cinecam line registers no generated node
ParseCinecam_NoGeneratedNode(s) ==
    IF ~CheckNumArgumentsGate(s, 11) THEN CheckNumArguments(s, 11)
    ELSE PushBack(s, "cinecam", CinecamRecord(s))

ParseCinecam(s) ==
    IF ~CheckNumArgumentsGate(s, 11) THEN CheckNumArguments(s, 11)
    ELSE PushBack(ImporterAdd(s, [kind |-> "generated", keyword |-> "cinecam"]),
                  "cinecam", CinecamRecord(s))

ParseFlexbody(s) ==
    IF ~CheckNumArgumentsGate(s, 10) THEN CheckNumArguments(s, 10)
    ELSE PushBack(s, "flexbodies",
            [reference_node |-> GetArgNodeRef(s, 0),
             x_axis_node |-> GetArgNodeRef(s, 1),
             y_axis_node |-> GetArgNodeRef(s, 2),
             offset |-> <<GetArgFloat(s, 3), GetArgFloat(s, 4), GetArgFloat(s, 5)>>,
             rotation |-> <<GetArgFloat(s, 6), GetArgFloat(s, 7), GetArgFloat(s, 8)>>,
             mesh_name |-> GetArgStr(s, 9),
             camera_settings |-> NewCameraSettings,
             node_list_to_import |-> <<>>])

\* ParseHelp: the whole line buffer is the material name
ParseHelp(s) == PushBack(s, "help", [material |-> s.m_current_line.raw])

(***************************************************************************)
(* Line dispatch.                                                          *)
(***************************************************************************)
\* the characters of a line whose tokens are toks: one space between tokens
RECURSIVE JoinTokens(_)
JoinTokens(toks) ==
    IF toks = <<>> THEN <<>>
    ELSE IF Len(toks) = 1 THEN toks[1]
    ELSE toks[1] \o <<" ">> \o JoinTokens(Tail(toks))

\* a line of the stream: text is "blank", "comment" (first character ';' or
\* '/') or "text"; kw the keyword the line starts with; toks its tokens;
\* raw the characters of the line buffer
Line(text, kw, toks) ==
    [text |-> text, kw |-> kw, toks |-> toks, raw |-> JoinTokens(toks)]

IsWhitespace(c) == c \in {" ", "\t"}

IsSeparator(c) == IsWhitespace(c) \/ c \in {":", "|", ","}

\* the loop of TokenizeCurrentLine over the characters left: cur is the
\* token being read, acc the tokens closed so far (the lines of the model
\* hold fewer tokens than LINE_MAX_ARGS)
RECURSIVE SplitTokens(_, _, _)
SplitTokens(chars, cur, acc) ==
    IF chars = <<>>
    THEN IF cur /= <<>> THEN Append(acc, cur) ELSE acc
    ELSE IF ~IsSeparator(Head(chars))
    THEN SplitTokens(Tail(chars), Append(cur, Head(chars)), acc)
    ELSE IF cur /= <<>>
    THEN SplitTokens(Tail(chars), <<>>, Append(acc, cur))
    ELSE SplitTokens(Tail(chars), cur, acc)

\* ProcessRawLine: trim leading whitespace
RECURSIVE TrimLeadingWhitespace(_)
TrimLeadingWhitespace(chars) ==
    IF chars /= <<>> /\ IsWhitespace(Head(chars))
    THEN TrimLeadingWhitespace(Tail(chars)) ELSE chars

\* the line ProcessRawLine makes of the characters read, for characters
\* whose first one, after the trimming, is no ASCII letter: such a line
\* holds no keyword (the quick check of IdentifyKeywordInCurrentLine)
RawLine(chars) ==
    LET raw == TrimLeadingWhitespace(chars)
    IN  [text |-> IF raw = <<>> THEN "blank"
                  ELSE IF Head(raw) \in {";", "/"} THEN "comment" ELSE "text",
         kw |-> KEYWORD_INVALID,
         toks |-> SplitTokens(raw, <<>>, <<>>),
         raw |-> raw]

\* line_in.find_first_of(c): the index from 0, -1 for npos
RECURSIVE FindFirstOf(_, _, _)
FindFirstOf(chars, c, from) ==
    IF from >= Len(chars) THEN 0 - 1
    ELSE IF chars[from + 1] = c THEN from
    ELSE FindFirstOf(chars, c, from + 1)

\* line_in.find_last_of(c): the index from 0, -1 for npos
RECURSIVE FindLastOf(_, _, _)
FindLastOf(chars, c, from) ==
    IF from < 0 THEN 0 - 1
    ELSE IF chars[from + 1] = c THEN from
    ELSE FindLastOf(chars, c, from - 1)

\* the loop of _TrimTrailingComments which steps back over '/', ' ' and tab;
\* at comment_start = 0 it reads line_in[-1], out of the string: the set of
\* the outcomes, the read seen as a stop (nothing kept) or as a step (the
\* length -1 of substr is npos, the whole line kept)
RECURSIVE CommentStartOutcomes(_, _)
CommentStartOutcomes(chars, comment_start) ==
    IF comment_start = 0 THEN {<<>>, chars}
    ELSE IF chars[comment_start] \notin {"/", " ", "\t"}
    THEN {SubSeq(chars, 1, comment_start)}
    ELSE CommentStartOutcomes(chars, comment_start - 1)

\* _TrimTrailingComments(line_in, line_out): the set of the possible line_out
_TrimTrailingComments(line_in) ==
    LET semicolon == FindFirstOf(line_in, ";", 0)
        slash     == FindLastOf(line_in, "/", Len(line_in) - 1)
    IN  IF semicolon /= 0 - 1 THEN {SubSeq(line_in, 1, semicolon)}
        ELSE IF slash /= 0 - 1 THEN CommentStartOutcomes(line_in, slash)
        ELSE {line_in}

\* std::strtok(str, delim): the items, the maximal runs without delim
RECURSIVE StrTok(_, _, _, _)
StrTok(chars, delim, cur, acc) ==
    IF chars = <<>>
    THEN IF cur /= <<>> THEN Append(acc, cur) ELSE acc
    ELSE IF Head(chars) /= delim
    THEN StrTok(Tail(chars), delim, Append(cur, Head(chars)), acc)
    ELSE IF cur /= <<>>
    THEN StrTok(Tail(chars), delim, <<>>, Append(acc, cur))
    ELSE StrTok(Tail(chars), delim, cur, acc)

\* ::strtoul(str, &end, 10) stored in an unsigned: leading whitespace is
\* skipped, a sign is accepted; end counts the characters consumed
StrToUL(chars) ==
    LET body == TrimLeadingWhitespace(chars)
        r    == StrToL(body)
    IN  IF r.end = 0 THEN [res |-> 0, end |-> 0]
        ELSE [res |-> UintCast(r.res), end |-> Len(chars) - Len(body) + r.end]

\* Node::Ref(text, num, IMPORT_STATE_IS_VALID, m_current_line_number)
ForsetNodeRef(s, text, num) ==
    [id_str |-> text, id_num |-> num, flags |-> {"IMPORT_STATE_IS_VALID"},
     line_number |-> s.m_current_line_number]

\* the Node::Range one item of a forset line makes
ForsetRange(s, item) ==
    LET hyphen == FindFirstOf(item, "-", 0)
    IN  IF hyphen /= 0 - 1
        THEN LET a == IF hyphen /= 0 THEN StrToUL(item) ELSE [res |-> 0, end |-> 0]
                 item2 == SubSeq(item, hyphen + 2, Len(item))
                 b == StrToUL(item2)
             IN  [start |-> ForsetNodeRef(s, SubSeq(item, 1, a.end), a.res),
                  end   |-> ForsetNodeRef(s, SubSeq(item2, 1, b.end), b.res)]
        ELSE LET a == StrToUL(item)
             IN  [start |-> ForsetNodeRef(s, item, a.res),
                  end   |-> ForsetNodeRef(s, item, a.res)]

\* flexbodies[flexbodies.size() - 1] on an empty vector is out of range: the
\* parse ends
OutOfRange(s) == [s EXCEPT !.stream = "crashed"]

\* the line buffer without the keyword, cut in items at ','
ParseDirectiveForset(s) ==
    LET items == StrTok(Tail(s.m_current_line.raw), ",", <<>>, <<>>)
        flexbodies == s.modules[s.m_current_module].flexbodies
    IN  IF items = <<>> THEN s
        ELSE IF flexbodies = <<>> THEN OutOfRange(s)
        ELSE [s EXCEPT !.modules[s.m_current_module].flexbodies[Len(flexbodies)]
                           .node_list_to_import =
                         @ \o [i \in DOMAIN items |-> ForsetRange(s, items[i])]]

\* Parser::LINE_MAX_ARGS, the number of slots of m_args.  RigDef_Parser.h
\* declares it; the number enters only through its name, and the model takes
\* a small one, above the token count of every section line it reads
LINE_MAX_ARGS == 20

\* one pass of the loop of TokenizeCurrentLine, at character i of the line;
\* r = [cur_arg, arg_len, slots], slots the slots of m_args written, each
\* [start, length], length 0 until it is written
TokenizeChar(r, is_arg, i) ==
    IF r.arg_len = 0 /\ is_arg
    THEN [r EXCEPT !.slots = Append(@, [start |-> i, length |-> 0]), !.arg_len = 1]
    ELSE IF r.arg_len > 0 /\ ~is_arg
    THEN [r EXCEPT !.slots[r.cur_arg + 1].length = r.arg_len,
                   !.arg_len = 0,
                   !.cur_arg = @ + 1]
    ELSE IF is_arg THEN [r EXCEPT !.arg_len = @ + 1]
    ELSE r

\* while ((*cur_char != '\0') && (cur_arg < LINE_MAX_ARGS))
RECURSIVE TokenizeLoop(_, _, _)
TokenizeLoop(r, chars, i) ==
    IF i > Len(chars) \/ ~(r.cur_arg < LINE_MAX_ARGS) THEN r
    ELSE TokenizeLoop(TokenizeChar(r, ~IsSeparator(chars[i]), i), chars, i + 1)

\* if (arg_len > 0): the slice the end of the line closes
TokenizeLast(r) ==
    IF r.arg_len > 0
    THEN [r EXCEPT !.slots[r.cur_arg + 1].length = r.arg_len, !.cur_arg = @ + 1]
    ELSE r

\* m_args holds the slices of the slots written, m_num_args = cur_arg
StoreSlices(s, chars, r) ==
    [s EXCEPT !.m_args = [k \in 1..Len(r.slots) |->
                            SubSeq(chars, r.slots[k].start,
                                   r.slots[k].start + r.slots[k].length - 1)],
              !.m_num_args = r.cur_arg]

\* mutant: the loop does not stop at LINE_MAX_ARGS slices
TokenizeCurrentLine_Unbounded(s) ==
    [s EXCEPT !.m_args = SplitTokens(s.m_current_line.raw, <<>>, <<>>),
              !.m_num_args = Len(SplitTokens(s.m_current_line.raw, <<>>, <<>>))]

TokenizeCurrentLine(s) ==
    StoreSlices(s, s.m_current_line.raw,
                TokenizeLast(TokenizeLoop([cur_arg |-> 0, arg_len |-> 0, slots |-> <<>>],
                                          s.m_current_line.raw, 1)))

IdentifyKeywordInCurrentLine(s) == s.m_current_line.kw

(***************************************************************************)
(* Sections with a trailing options token: shocks, ties, triggers,         *)
(* commands and commands2.                                                 *)
(***************************************************************************)
\* the options loop of ParseShock; r = [options, s]
RECURSIVE ShockOptionLoop(_, _)
ShockOptionLoop(r, str) ==
    IF str = <<>> THEN r
    ELSE LET c == Head(str)
             r1 == IF c \in {"n", "v"} THEN r
                   ELSE IF c \in {"i", "m"} THEN [r EXCEPT !.options = @ \cup {c}]
                   ELSE IF c \in {"r", "R"} THEN [r EXCEPT !.options = @ \cup {"R"}]
                   ELSE IF c \in {"l", "L"} THEN [r EXCEPT !.options = @ \cup {"L"}]
                   ELSE [r EXCEPT !.s = LogMessage(@, CONSOLE_SYSTEM_WARNING,
                                                   "ignoring invalid option")]
         IN  ShockOptionLoop(r1, Tail(str))

\* mutant: the options of the shock are never decoded
ParseShockOptions_Skipped(s) == [options |-> {}, s |-> s]

\* shock.options = 0u, then the loop when there is an eighth token
ParseShockOptions(s) ==
    IF s.m_num_args > 7
    THEN ShockOptionLoop([options |-> {}, s |-> s], GetArgStr(s, 7))
    ELSE [options |-> {}, s |-> s]

\* the body of ParseShock after the gate; r = the decoded options
PushShock(s, r) ==
    PushBack(r.s, "shocks",
        [beam_defaults |-> s.m_user_beam_defaults,
         detacher_group |-> s.m_current_detacher_group,
         nodes |-> <<GetArgNodeRef(s, 0), GetArgNodeRef(s, 1)>>,
         spring_rate |-> GetArgFloat(s, 2),
         damping |-> GetArgFloat(s, 3),
         short_bound |-> GetArgFloat(s, 4),
         long_bound |-> GetArgFloat(s, 5),
         precompression |-> GetArgFloat(s, 6),
         options |-> r.options])

ParseShock(s) ==
    IF ~CheckNumArgumentsGate(s, 7) THEN CheckNumArguments(s, 7)
    ELSE PushShock(s, ParseShockOptions(s))

\* the options loop of ParseTies; r = [options, s], the bits are the two flags
\* is_invisible ("i") and disable_self_lock ("s")
RECURSIVE TieOptionLoop(_, _)
TieOptionLoop(r, str) ==
    IF str = <<>> THEN r
    ELSE LET c == Head(str)
             r1 == IF c \in {"n", "v"} THEN r
                   ELSE IF c \in {"i", "s"} THEN [r EXCEPT !.options = @ \cup {c}]
                   ELSE [r EXCEPT !.s = LogMessage(@, CONSOLE_SYSTEM_WARNING,
                                                   "ignoring invalid option")]
         IN  TieOptionLoop(r1, Tail(str))

\* the end of ParseTies: max_stress, group, push_back; g = GetArgInt(7)
PushTie(s, r, g) ==
    PushBack(g.s, "ties",
        [beam_defaults |-> s.m_user_beam_defaults,
         detacher_group |-> s.m_current_detacher_group,
         root_node |-> GetArgNodeRef(s, 0),
         max_reach_length |-> GetArgFloat(s, 1),
         auto_shorten_rate |-> GetArgFloat(s, 2),
         min_length |-> GetArgFloat(s, 3),
         max_length |-> GetArgFloat(s, 4),
         is_invisible |-> "i" \in r.options,
         disable_self_lock |-> "s" \in r.options,
         max_stress |-> IF s.m_num_args > 6 THEN GetArgFloat(s, 6) ELSE 0,
         group |-> g.res])

\* Tie(): group = -1
TieGroup(s, r) ==
    PushTie(s, r, IF s.m_num_args > 7 THEN GetArgInt(r.s, 7) ELSE [res |-> 0 - 1, s |-> r.s])

ParseTies(s) ==
    IF ~CheckNumArgumentsGate(s, 5) THEN CheckNumArguments(s, 5)
    ELSE TieGroup(s, IF s.m_num_args > 5
                     THEN TieOptionLoop([options |-> {}, s |-> s], GetArgStr(s, 5))
                     ELSE [options |-> {}, s |-> s])

TriggerOptionBits == {"i", "c", "x", "b", "B", "A", "s", "h", "H", "t", "E"}

\* the options loop of ParseTriggers; r = [options, s]
RECURSIVE TriggerOptionLoop(_, _)
TriggerOptionLoop(r, str) ==
    IF str = <<>> THEN r
    ELSE LET c == Head(str)
             r1 == IF c \in TriggerOptionBits THEN [r EXCEPT !.options = @ \cup {c}]
                   ELSE [r EXCEPT !.s = LogMessage(@, CONSOLE_SYSTEM_WARNING,
                                                   "ignoring invalid option")]
         IN  TriggerOptionLoop(r1, Tail(str))

\* "Handle actions": which of the three action kinds the two integers become
TriggerActionKind(options) ==
    IF options \cap {"h", "H"} /= {} THEN "hook_toggle"
    ELSE IF "E" \in options THEN "engine_trigger"
    ELSE "command_keys"

\* the end of ParseTriggers; r = the decoded options
PushTrigger(s, short, long, r) ==
    PushBack(r.s, "triggers",
        [beam_defaults |-> s.m_user_beam_defaults,
         detacher_group |-> s.m_current_detacher_group,
         nodes |-> <<GetArgNodeRef(s, 0), GetArgNodeRef(s, 1)>>,
         contraction_trigger_limit |-> GetArgFloat(s, 2),
         expansion_trigger_limit |-> GetArgFloat(s, 3),
         options |-> r.options,
         boundary_timer |-> IF s.m_num_args > 7 /\ GetArgFloat(s, 7) > 0
                            THEN GetArgFloat(s, 7) ELSE 1,
         action |-> TriggerActionKind(r.options),
         shortbound_trigger_action |-> short,
         longbound_trigger_action |-> long])

\* a5 = GetArgInt(5), then the options
TriggerOptions(s, short, a5) ==
    PushTrigger(s, short, a5.res,
                IF s.m_num_args > 6
                THEN TriggerOptionLoop([options |-> {}, s |-> a5.s], GetArgStr(s, 6))
                ELSE [options |-> {}, s |-> a5.s])

\* a4 = GetArgInt(4)
TriggerActions(s, a4) == TriggerOptions(s, a4.res, GetArgInt(a4.s, 5))

ParseTriggers(s) ==
    IF ~CheckNumArgumentsGate(s, 6) THEN CheckNumArguments(s, 6)
    ELSE TriggerActions(s, GetArgInt(s, 4))

\* Ogre::StringConverter::parseBool: "true", "yes", "1" and "on" as prefixes
GetArgBool(s, index) ==
    \E p \in {<<"1">>, <<"o", "n">>, <<"y", "e", "s">>, <<"t", "r", "u", "e">>} :
        /\ Len(GetArgStr(s, index)) >= Len(p)
        /\ SubSeq(GetArgStr(s, index), 1, Len(p)) = p

\* the options loop of ParseCommandsUnified; r = [options, winner, ignored, s],
\* winner and ignored are "" for the character 0
RECURSIVE CommandOptionLoop(_, _)
CommandOptionLoop(r, str) ==
    IF str = <<>> THEN r
    ELSE LET c == Head(str)
             r0 == IF r.winner = "" /\ c \in {"o", "p", "c"}
                   THEN [r EXCEPT !.winner = c] ELSE r
             r1 == IF c = "n" THEN r0
                   ELSE IF c \in {"i", "r", "f", "c", "p", "o"}
                   THEN [r0 EXCEPT !.options = @ \cup {c}]
                   ELSE [r0 EXCEPT !.s = LogMessage(@, CONSOLE_SYSTEM_WARNING,
                                                    "ignoring unknown flag")]
         IN  CommandOptionLoop(r1, Tail(str))

\* "Resolve option conflicts", flag c
ResolveAutoCenter(r) ==
    IF "c" \in r.options /\ r.winner \notin {"c", ""}
    THEN [r EXCEPT !.options = @ \ {"c"},
                   !.s = LogMessage(@, CONSOLE_SYSTEM_WARNING,
                                    "Command cannot be one-pressed and self centering at the same time, ignoring flag 'c'")]
    ELSE r

\* "Resolve option conflicts", flags o and p
ResolveOnePress(r) ==
    IF "o" \in r.options /\ r.winner \notin {"o", ""}
    THEN [r EXCEPT !.options = @ \ {"o"}, !.ignored = "o"]
    ELSE IF "p" \in r.options /\ r.winner \notin {"p", ""}
    THEN [r EXCEPT !.options = @ \ {"p"}, !.ignored = "p"]
    ELSE r

\* "Report conflicts"
ReportConflicts(r) ==
    IF r.ignored /= "" /\ r.winner = "c"
    THEN [r EXCEPT !.s = LogMessage(@, CONSOLE_SYSTEM_WARNING,
                                    "Command cannot be one-pressed and self centering at the same time, ignoring flag '%c'")]
    ELSE IF r.ignored /= "" /\ r.winner \in {"o", "p"}
    THEN [r EXCEPT !.s = LogMessage(@, CONSOLE_SYSTEM_WARNING,
                                    "Command already has a one-pressed c.mode, ignoring flag '%c'")]
    ELSE r

\* the Command2 record; pos = the index of the first token after the keys,
\* options = the flags set, k = GetArgInt of contract_key, e = of extend_key
Command2Record(s, pos, options, k, e) ==
    [beam_defaults |-> s.m_user_beam_defaults,
     detacher_group |-> s.m_current_detacher_group,
     _format_version |-> IF s.m_current_block = "commands2" THEN 2 ELSE 1,
     inertia_defaults |-> s.m_user_default_inertia,
     nodes |-> <<GetArgNodeRef(s, 0), GetArgNodeRef(s, 1)>>,
     shorten_rate |-> GetArgFloat(s, 2),
     lengthen_rate |-> IF s.m_current_block = "commands2"
                       THEN GetArgFloat(s, 3) ELSE GetArgFloat(s, 2),
     max_contraction |-> GetArgFloat(s, pos - 4),
     max_extension |-> GetArgFloat(s, pos - 3),
     contract_key |-> k,
     extend_key |-> e,
     options |-> options,
     description |-> IF s.m_num_args > pos + 1 THEN GetArgStr(s, pos + 1) ELSE <<>>,
     inertia |-> IF s.m_num_args > pos + 2 THEN ParseOptionalInertia(s, pos + 2)
                 ELSE NewInertia,
     affect_engine |-> IF s.m_num_args > pos + 6 THEN GetArgFloat(s, pos + 6) ELSE 1,
     needs_engine |-> IF s.m_num_args > pos + 7 THEN GetArgBool(s, pos + 7) ELSE TRUE,
     plays_sound |-> IF s.m_num_args > pos + 8 THEN GetArgBool(s, pos + 8) ELSE TRUE]

\* r = the options after the conflicts are resolved and reported
PushCommand2(s, pos, k, e, r) ==
    PushBack(r.s, "commands2", Command2Record(s, pos, r.options, k, e))

\* e = GetArgInt of extend_key; "No more args?" pushes the record as it is
CommandOptions(s, pos, k, e) ==
    IF s.m_num_args <= pos
    THEN PushBack(e.s, "commands2", Command2Record(s, pos, {}, k, e.res))
    ELSE PushCommand2(s, pos, k, e.res,
            ReportConflicts(ResolveOnePress(ResolveAutoCenter(
                CommandOptionLoop([options |-> {}, winner |-> "", ignored |-> "",
                                   s |-> e.s],
                                  GetArgStr(s, pos))))))

\* k = GetArgInt of contract_key
CommandKeys(s, pos, k) == CommandOptions(s, pos, k.res, GetArgInt(k.s, pos - 1))

\* max_args = 8 for commands2 and 7 for commands
ParseCommandsUnified(s) ==
    IF s.m_current_block = "commands2"
    THEN IF ~CheckNumArgumentsGate(s, 8) THEN CheckNumArguments(s, 8)
         ELSE CommandKeys(s, 8, GetArgInt(s, 6))
    ELSE IF ~CheckNumArgumentsGate(s, 7) THEN CheckNumArguments(s, 7)
         ELSE CommandKeys(s, 7, GetArgInt(s, 5))

(***************************************************************************)
(* The comma-split directives antilockbrakes and tractioncontrol.          *)
(***************************************************************************)
\* Ogre::StringUtil::split(str, delims): the maximal runs without delimiter
OgreSplit(chars, delim) == StrTok(chars, delim, <<>>, <<>>)

\* m_current_line + n: the characters from offset n on; raw[1] is the
\* keyword, of kwlen characters; the buffer is zeroed before each line, so
\* that an offset behind the end of the line finds an empty string
LineFrom(raw, kwlen, n) ==
    IF Len(raw) < 2 + (n - kwlen) THEN <<>>
    ELSE SubSeq(raw, 2 + (n - kwlen), Len(raw))

RECURSIVE TrimTrailingWhitespace(_)
TrimTrailingWhitespace(chars) ==
    IF chars /= <<>> /\ IsWhitespace(chars[Len(chars)])
    THEN TrimTrailingWhitespace(SubSeq(chars, 1, Len(chars) - 1)) ELSE chars

\* Ogre::StringUtil::trim(str)
Trim(chars) == TrimTrailingWhitespace(TrimLeadingWhitespace(chars))

\* Ogre::StringUtil::toLowerCase(str), on the capitals the inputs hold
ToLowerCase(chars) ==
    [i \in DOMAIN chars |->
        CASE chars[i] = "M" -> "m" [] chars[i] = "O" -> "o" [] chars[i] = "D" -> "d"
          [] chars[i] = "E" -> "e" [] chars[i] = "N" -> "n" [] chars[i] = "F" -> "f"
          [] OTHER -> chars[i]]

\* strncmp(str, prefix, strlen(prefix)) == 0
HasPrefix(chars, prefix) ==
    Len(chars) >= Len(prefix) /\ SubSeq(chars, 1, Len(prefix)) = prefix

\* Ogre::StringConverter::parseReal(str, 0.f) skips leading whitespace
ParseArgFloat(str) == ParseReal(TrimLeadingWhitespace(str))

\* the strtol call of ParseArgUint(str): no end pointer, so the leading
\* number, and 0 when there is none.  strtol sets errno when the number does
\* not fit a long, which no token of the integers of the model does; the C
\* library leaves errno at 0 when no digits are found, so nothing is logged
ParseArgLong(str) == StrToL(TrimLeadingWhitespace(str)).res

ParseArgUint(str) == UintCast(ParseArgLong(str))

\* mutant: a number with trailing characters is decoded as 0
ParseArgInt_Whole(str) ==
    WholeTokenOrZero(TrimLeadingWhitespace(str), StrToL(TrimLeadingWhitespace(str)))

\* static_cast<int>(ParseArgUint(str)): the two casts give the long back
ParseArgInt(str) == ParseArgLong(str)

\* one pass of the loop over the attributes of "mode:"; rec is the record
ModeAttr(rec, attr) ==
    IF HasPrefix(attr, <<"n", "o", "d", "a", "s", "h">>)
    THEN [rec EXCEPT !.attr_no_dashboard = TRUE]
    ELSE IF HasPrefix(attr, <<"n", "o", "t", "o", "g", "g", "l", "e">>)
    THEN [rec EXCEPT !.attr_no_toggle = TRUE]
    ELSE IF HasPrefix(attr, <<"o", "n">>) THEN [rec EXCEPT !.attr_is_on = TRUE]
    ELSE IF HasPrefix(attr, <<"o", "f", "f">>) THEN [rec EXCEPT !.attr_is_on = FALSE]
    ELSE rec

RECURSIVE ModeAttrLoop(_, _)
ModeAttrLoop(rec, attrs) ==
    IF attrs = <<>> THEN rec
    ELSE ModeAttrLoop(ModeAttr(rec, ToLowerCase(Trim(Head(attrs)))), Tail(attrs))

\* the body of the loop over tokens[i]; r = [rec, s], args2 = the entry split
\* at ':'.  An entry made of ':' alone splits into no item, and args2[0] is
\* then read outside the vector
ModeEntry(r, args2) ==
    IF args2 = <<>> THEN [r EXCEPT !.s = OutOfRange(@)]
    ELSE IF ToLowerCase(Trim(args2[1])) = <<"m", "o", "d", "e">> /\ Len(args2) = 2
    THEN [r EXCEPT !.rec = ModeAttrLoop(@, OgreSplit(args2[2], "&"))]
    ELSE [r EXCEPT !.s = LogMessage(@, CONSOLE_SYSTEM_ERROR, "missing mode"),
                   !.rec.attr_no_dashboard = FALSE,
                   !.rec.attr_no_toggle = FALSE,
                   !.rec.attr_is_on = TRUE]

\* for (i = first; i < tokens.size(); i++), i counted from 1 here
RECURSIVE ModeEntryLoop(_, _, _)
ModeEntryLoop(r, tokens, i) ==
    IF i > Len(tokens) \/ r.s.stream = "crashed" THEN r
    ELSE ModeEntryLoop(ModeEntry(r, OgreSplit(tokens[i], ":")), tokens, i + 1)

\* m_current_module-><coll>.push_back(rec), when the loop came to its end
PushModeRecord(coll, r) ==
    IF r.s.stream = "crashed" THEN r.s ELSE PushBack(r.s, coll, r.rec)

\* AntiLockBrakes()
NewAntiLockBrakes ==
    [regulation_force |-> 0, min_speed |-> 0, pulse_per_sec |-> 0,
     attr_is_on |-> TRUE, attr_no_dashboard |-> FALSE, attr_no_toggle |-> FALSE]

\* ParseAntiLockBrakes after the split; s holds m_num_args = tokens.size()
AntiLockBrakesFrom(s, tokens) ==
    IF ~CheckNumArgumentsGate(s, 2) THEN CheckNumArguments(s, 2)
    ELSE PushModeRecord("antilockbrakes",
            ModeEntryLoop(
                [rec |-> [NewAntiLockBrakes EXCEPT
                            !.regulation_force = ParseArgFloat(tokens[1]),
                            !.min_speed = ParseArgInt(tokens[2]),
                            !.pulse_per_sec = IF Len(tokens) > 3
                                              THEN ParseArgFloat(tokens[3]) ELSE @],
                 s |-> s],
                tokens, 4))

\* the length of the keyword which opens the line
KeywordLength(kw) == IF kw = "tractioncontrol" THEN 15 ELSE 14

\* Ogre::StringUtil::split(m_current_line + 15, ",")
SplitFrom15(s) ==
    OgreSplit(LineFrom(s.m_current_line.raw, KeywordLength(s.m_current_line.kw), 15), ",")

ParseAntiLockBrakes(s) ==
    AntiLockBrakesFrom([s EXCEPT !.m_num_args = Len(SplitFrom15(s))], SplitFrom15(s))

\* TractionControl()
NewTractionControl ==
    [regulation_force |-> 0, wheel_slip |-> 0, fade_speed |-> 0, pulse_per_sec |-> 0,
     attr_is_on |-> TRUE, attr_no_dashboard |-> FALSE, attr_no_toggle |-> FALSE]

\* ParseTractionControl after the split; s holds m_num_args = tokens.size()
TractionControlFrom(s, tokens) ==
    IF ~CheckNumArgumentsGate(s, 2) THEN CheckNumArguments(s, 2)
    ELSE PushModeRecord("tractioncontrol",
            ModeEntryLoop(
                [rec |-> [NewTractionControl EXCEPT
                            !.regulation_force = ParseArgFloat(tokens[1]),
                            !.wheel_slip = ParseArgFloat(tokens[2]),
                            !.fade_speed = IF Len(tokens) > 2
                                           THEN ParseArgFloat(tokens[3]) ELSE @,
                            !.pulse_per_sec = IF Len(tokens) > 3
                                              THEN ParseArgFloat(tokens[4]) ELSE @],
                 s |-> s],
                tokens, 5))

ParseTractionControl(s) ==
    TractionControlFrom([s EXCEPT !.m_num_args = Len(SplitFrom15(s))], SplitFrom15(s))

\* _ParseCameraSettings(camera_settings, input_str): res is the settings after
ParseCameraSettingsOf(s, camera_settings, input) ==
    IF input >= 0
    THEN [res |-> [mode |-> "MODE_CINECAM", cinecam_index |-> input], s |-> s]
    ELSE IF input >= 0 - 2
    THEN [res |-> [camera_settings EXCEPT !.mode = input], s |-> s]
    ELSE [res |-> camera_settings,
          s |-> LogMessage(s, CONSOLE_SYSTEM_ERROR, "invalid value, skipping line")]

_ParseCameraSettings(s, camera_settings, input_str) ==
    ParseCameraSettingsOf(s, camera_settings, PARSEINT(input_str))

\* r = the result of _ParseCameraSettings on the last record of coll
StoreCameraSettings(r, coll) ==
    [r.s EXCEPT !.modules[r.s.m_current_module][coll]
                    [Len(r.s.modules[r.s.m_current_module][coll])].camera_settings = r.res]

\* props.back() on an empty vector is undefined: the parse ends
ParseDirectivePropCameraMode(s) ==
    IF ~CheckNumArgumentsGate(s, 2) THEN CheckNumArguments(s, 2)
    ELSE IF s.modules[s.m_current_module].props = <<>> THEN OutOfRange(s)
    ELSE StoreCameraSettings(
            _ParseCameraSettings(s,
                s.modules[s.m_current_module].props
                    [Len(s.modules[s.m_current_module].props)].camera_settings,
                GetArgStr(s, 1)),
            "props")

ParseDirectiveFlexbodyCameraMode(s) ==
    IF ~CheckNumArgumentsGate(s, 2) THEN CheckNumArguments(s, 2)
    ELSE IF s.modules[s.m_current_module].flexbodies = <<>> THEN OutOfRange(s)
    ELSE StoreCameraSettings(
            _ParseCameraSettings(s,
                s.modules[s.m_current_module].flexbodies
                    [Len(s.modules[s.m_current_module].flexbodies)].camera_settings,
                GetArgStr(s, 1)),
            "flexbodies")

\* std::string::find(sub) != npos
RECURSIVE Contains(_, _)
Contains(chars, sub) ==
    IF Len(chars) < Len(sub) THEN FALSE
    ELSE HasPrefix(chars, sub) \/ Contains(Tail(chars), sub)

Chars(str) ==
    CASE str = "leftmirror"   -> <<"l","e","f","t","m","i","r","r","o","r">>
      [] str = "rightmirror"  -> <<"r","i","g","h","t","m","i","r","r","o","r">>
      [] str = "dashboard-rh" -> <<"d","a","s","h","b","o","a","r","d","-","r","h">>
      [] str = "dashboard"    -> <<"d","a","s","h","b","o","a","r","d">>
      [] str = "spinprop"     -> <<"s","p","i","n","p","r","o","p">>
      [] str = "pale"         -> <<"p","a","l","e">>
      [] str = "seat"         -> <<"s","e","a","t">>
      [] str = "seat2"        -> <<"s","e","a","t","2">>
      [] str = "beacon"       -> <<"b","e","a","c","o","n">>
      [] str = "redbeacon"    -> <<"r","e","d","b","e","a","c","o","n">>
      [] str = "lightb"       -> <<"l","i","g","h","t","b">>

\* the chain of tests on the mesh name in ParseProps
PropSpecial(mesh_name) ==
    IF Contains(mesh_name, Chars("leftmirror")) THEN "SPECIAL_MIRROR_LEFT"
    ELSE IF Contains(mesh_name, Chars("rightmirror")) THEN "SPECIAL_MIRROR_RIGHT"
    ELSE IF Contains(mesh_name, Chars("dashboard-rh")) THEN "SPECIAL_DASHBOARD_RIGHT"
    ELSE IF Contains(mesh_name, Chars("dashboard")) THEN "SPECIAL_DASHBOARD_LEFT"
    ELSE IF HasPrefix(mesh_name, Chars("spinprop")) THEN "SPECIAL_AERO_PROP_SPIN"
    ELSE IF HasPrefix(mesh_name, Chars("pale")) THEN "SPECIAL_AERO_PROP_BLADE"
    ELSE IF HasPrefix(mesh_name, Chars("seat")) THEN "SPECIAL_DRIVER_SEAT"
    ELSE IF HasPrefix(mesh_name, Chars("seat2")) THEN "SPECIAL_DRIVER_SEAT_2"
    ELSE IF HasPrefix(mesh_name, Chars("beacon")) THEN "SPECIAL_BEACON"
    ELSE IF HasPrefix(mesh_name, Chars("redbeacon")) THEN "SPECIAL_REDBEACON"
    ELSE IF HasPrefix(mesh_name, Chars("lightb")) THEN "SPECIAL_LIGHTBAR"
    ELSE "SPECIAL_INVALID"

\* Prop(): the members the constructor sets before ParseProps fills them
NewProp ==
    [special |-> "SPECIAL_INVALID", camera_settings |-> NewCameraSettings,
     animations |-> <<>>,
     special_prop_beacon |-> [flare_material_name |-> <<>>, color |-> <<0, 0, 0>>],
     special_prop_dashboard |-> [mesh_name |-> <<>>, offset |-> <<0, 0, 0>>,
                                 _offset_is_set |-> FALSE, rotation_angle |-> 0]]

\* the members ParseProps reads for a beacon or a dashboard
PropSpecialMembers(s, prop) ==
    IF prop.special = "SPECIAL_BEACON" /\ s.m_num_args >= 14
    THEN [prop EXCEPT !.special_prop_beacon =
             [flare_material_name |-> Trim(GetArgStr(s, 10)),
              color |-> <<GetArgFloat(s, 11), GetArgFloat(s, 12), GetArgFloat(s, 13)>>]]
    ELSE IF prop.special \in {"SPECIAL_DASHBOARD_RIGHT", "SPECIAL_DASHBOARD_LEFT"}
    THEN [prop EXCEPT
            !.special_prop_dashboard.mesh_name =
                IF s.m_num_args > 10 THEN GetArgStr(s, 10) ELSE @,
            !.special_prop_dashboard.offset =
                IF s.m_num_args > 13
                THEN <<GetArgFloat(s, 11), GetArgFloat(s, 12), GetArgFloat(s, 13)>> ELSE @,
            !.special_prop_dashboard._offset_is_set =
                IF s.m_num_args > 13 THEN TRUE ELSE @,
            !.special_prop_dashboard.rotation_angle =
                IF s.m_num_args > 14 THEN GetArgFloat(s, 14) ELSE @]
    ELSE prop

ParseProps(s) ==
    IF ~CheckNumArgumentsGate(s, 10) THEN CheckNumArguments(s, 10)
    ELSE PushBack(s, "props",
            PropSpecialMembers(s,
                [reference_node |-> GetArgNodeRef(s, 0),
                 x_axis_node |-> GetArgNodeRef(s, 1),
                 y_axis_node |-> GetArgNodeRef(s, 2),
                 offset |-> <<GetArgFloat(s, 3), GetArgFloat(s, 4), GetArgFloat(s, 5)>>,
                 rotation |-> <<GetArgFloat(s, 6), GetArgFloat(s, 7), GetArgFloat(s, 8)>>,
                 mesh_name |-> GetArgStr(s, 9),
                 special |-> PropSpecial(GetArgStr(s, 9)),
                 camera_settings |-> NewProp.camera_settings,
                 animations |-> NewProp.animations,
                 special_prop_beacon |-> NewProp.special_prop_beacon,
                 special_prop_dashboard |-> NewProp.special_prop_dashboard]))

\* SimConstants.h BEAM_SKELETON_DIAMETER: a stand-in, as the constants above
BEAM_SKELETON_DIAMETER == 95

\* SkeletonSettings(), ExtCamera(), TorqueCurve() as their constructors leave them
NewSkeletonSettings ==
    [visibility_range_meters |-> 150, beam_thickness_meters |-> BEAM_SKELETON_DIAMETER]

NewExtCamera == [mode |-> "MODE_CLASSIC", node |-> <<>>]

NewTorqueCurve == [predefined_func_name |-> <<>>, samples |-> <<>>]

\* if (collection.size() == 0) collection.push_back(T())
EnsureOne(s, coll, rec) ==
    IF s.modules[s.m_current_module][coll] = <<>> THEN PushBack(s, coll, rec) ELSE s

\* "Defaults" of ParseSetSkeletonSettings
SkeletonDefaults(skel) ==
    [skel EXCEPT !.visibility_range_meters = IF @ < 0 THEN 150 ELSE @,
                 !.beam_thickness_meters = IF @ < 0 THEN BEAM_SKELETON_DIAMETER ELSE @]

\* mutant: every directive appends its own record
ParseSetSkeletonSettings_Appends(s) ==
    IF ~CheckNumArgumentsGate(s, 2) THEN CheckNumArguments(s, 2)
    ELSE PushBack(s, "set_skeleton_settings",
            SkeletonDefaults(
                [NewSkeletonSettings EXCEPT
                    !.visibility_range_meters = GetArgFloat(s, 1),
                    !.beam_thickness_meters =
                        IF s.m_num_args > 2 THEN GetArgFloat(s, 2) ELSE @]))

ParseSetSkeletonSettings(s) ==
    IF ~CheckNumArgumentsGate(s, 2) THEN CheckNumArguments(s, 2)
    ELSE [EnsureOne(s, "set_skeleton_settings", NewSkeletonSettings) EXCEPT
            !.modules[s.m_current_module].set_skeleton_settings[1] =
                SkeletonDefaults(
                    [@ EXCEPT
                        !.visibility_range_meters = GetArgFloat(s, 1),
                        !.beam_thickness_meters =
                            IF s.m_num_args > 2 THEN GetArgFloat(s, 2) ELSE @])]

ParseExtCamera(s) ==
    IF ~CheckNumArgumentsGate(s, 2) THEN CheckNumArguments(s, 2)
    ELSE [EnsureOne(s, "extcamera", NewExtCamera) EXCEPT
            !.modules[s.m_current_module].extcamera[1] =
                IF GetArgStr(s, 1) = <<"c","l","a","s","s","i","c">>
                THEN [@ EXCEPT !.mode = "MODE_CLASSIC"]
                ELSE IF GetArgStr(s, 1) = <<"c","i","n","e","c","a","m">>
                THEN [@ EXCEPT !.mode = "MODE_CINECAM"]
                ELSE IF GetArgStr(s, 1) = <<"n","o","d","e">> /\ s.m_num_args > 2
                THEN [@ EXCEPT !.mode = "MODE_NODE", !.node = <<GetArgNodeRef(s, 2)>>]
                ELSE @]

\* args = the line buffer split at ','; s1 = the state with the record ensured
TorqueCurveFrom(s1, args) ==
    IF Len(args) = 1
    THEN [s1 EXCEPT !.modules[s1.m_current_module].torquecurve[1]
                        .predefined_func_name = args[1]]
    ELSE IF Len(args) = 2
    THEN [s1 EXCEPT !.modules[s1.m_current_module].torquecurve[1].samples =
                        Append(@, [power |-> ParseArgFloat(args[1]),
                                   torque_percent |-> ParseArgFloat(args[2])])]
    ELSE LogMessage(s1, CONSOLE_SYSTEM_ERROR, "too many arguments, skipping")

ParseTorqueCurve(s) ==
    TorqueCurveFrom(EnsureOne(s, "torquecurve", NewTorqueCurve),
                    OgreSplit(s.m_current_line.raw, ","))

ParseFixes(s) == PushBack(s, "fixes", GetArgNodeRef0(s))

\* std::regex_search(field, results, Regexes::SECTION_AXLES_PROPERTY) as
\* ParseInterAxles reads it: found = the search succeeded with results[5]
\* matched, options = results[6].  The pattern is defined in
\* RigDef_Regexes.h; the fields of the model are differential properties
\* d(...) or no property at all
SECTION_AXLES_PROPERTY(str) ==
    IF /\ Len(Trim(str)) >= 3
       /\ HasPrefix(Trim(str), <<"d", "(">>)
       /\ Trim(str)[Len(Trim(str))] = ")"
    THEN [found |-> TRUE, options |-> SubSeq(Trim(str), 3, Len(Trim(str)) - 1)]
    ELSE [found |-> FALSE, options |-> <<>>]

\* r = [diff_types, s]
RECURSIVE _ParseDifferentialTypes(_, _)
_ParseDifferentialTypes(r, options_str) ==
    IF options_str = <<>> THEN r
    ELSE _ParseDifferentialTypes(
            IF Head(options_str) \in {"o", "l", "s", "v"}
            THEN [r EXCEPT !.diff_types = Append(@, Head(options_str))]
            ELSE [r EXCEPT !.s = LogMessage(@, CONSOLE_SYSTEM_WARNING,
                                            "ignoring invalid differential type")],
            Tail(options_str))

\* r = the result of _ParseDifferentialTypes
PushInterAxle(args, r) ==
    PushBack(r.s, "interaxles",
             [a1 |-> ParseArgInt(args[1]) - 1, a2 |-> ParseArgInt(args[2]) - 1,
              options |-> r.diff_types])

\* args = the line buffer split at ','.  args[2] is read when the vector holds
\* two fields: out of range, the parse ends
InterAxlesFrom(s, args) ==
    IF Len(args) < 2 THEN s
    ELSE IF Len(args) < 3 THEN OutOfRange(s)
    ELSE IF ~SECTION_AXLES_PROPERTY(args[3]).found
    THEN LogMessage(s, CONSOLE_SYSTEM_ERROR, "Invalid property, ignoring whole line...")
    ELSE PushInterAxle(args,
            _ParseDifferentialTypes([diff_types |-> <<>>, s |-> s],
                                    SECTION_AXLES_PROPERTY(args[3]).options))

ParseInterAxles(s) == InterAxlesFrom(s, OgreSplit(s.m_current_line.raw, ","))

GlobalDirectives ==
    {"disabledefaultsounds", "enable_advanced_deformation", "forwardcommands",
     "hideInChooser", "importcommands", "lockgroup_default_nolock", "rescuer",
     "rollon", "slidenode_connect_instantly"}

\* the second switch of ProcessCurrentLine: the parser of the open block
ParseCurrentBlock(s) ==
    CASE s.m_current_block = "beams"            -> ParseBeams(s)
      [] s.m_current_block = "cab"              -> ParseCab(s)
      [] s.m_current_block = "camerarail"       -> ParseCameraRails(s)
      [] s.m_current_block = "cinecam"          -> ParseCinecam(s)
      [] s.m_current_block = "fixes"            -> ParseFixes(s)
      [] s.m_current_block = "flexbodies"       -> ParseFlexbody(s)
      [] s.m_current_block = "interaxles"       -> ParseInterAxles(s)
      [] s.m_current_block = "props"            -> ParseProps(s)
      [] s.m_current_block = "flexbodywheels"   -> ParseFlexBodyWheel(s)
      [] s.m_current_block \in {"meshwheels", "meshwheels2"} -> ParseMeshWheelUnified(s)
      [] s.m_current_block = "wheels2"          -> ParseWheel2(s)
      [] s.m_current_block \in {"commands", "commands2"} -> ParseCommandsUnified(s)
      [] s.m_current_block = "shocks"           -> ParseShock(s)
      [] s.m_current_block = "ties"             -> ParseTies(s)
      [] s.m_current_block = "triggers"         -> ParseTriggers(s)
      [] s.m_current_block = "engine"           -> ParseEngine(s)
      [] s.m_current_block = "help"             -> ParseHelp(s)
      [] s.m_current_block = "hydros"           -> ParseHydros(s)
      [] s.m_current_block = "managedmaterials" -> ParseManagedMaterials(s)
      [] s.m_current_block = "minimass"         -> ParseMinimass(s)
      [] s.m_current_block \in {"nodes", "nodes2"} -> ParseNodesUnified(s)
      [] s.m_current_block = "texcoords"        -> ParseTexcoords(s)
      [] s.m_current_block = "torquecurve"      -> ParseTorqueCurve(s)
      [] s.m_current_block = "wheels"           -> ParseWheel(s)
      [] OTHER -> s

\* "Ignored keywords (obsolete)"
ObsoleteKeywords == {"envmap", "hookgroup", "nodecollision", "rigidifiers"}

\* mutant: an obsolete keyword closes the open block, as an unknown one would
IgnoreObsoleteKeyword_EndsBlock(s, keyword) == BeginBlock(s, KEYWORD_INVALID)

\* the case of the obsolete keywords: return
IgnoreObsoleteKeyword(s, keyword) == s

\* mutant: a block-ending keyword that does not match the open block is
\* reported and dropped
ProcessKeyword_MisplacedEndIgnored(s, keyword) ==
    CASE keyword \in GlobalDirectives -> ProcessGlobalDirective(s, keyword)
      [] keyword = "end_section" -> ProcessChangeModuleLine(s, keyword)
      [] keyword = "antilockbrakes" -> ParseAntiLockBrakes(s)
      [] keyword = "author" -> ParseAuthor(s)
      [] keyword = "backmesh" -> ParseDirectiveBackmesh(s)
      [] keyword = "detacher_group" -> ParseDirectiveDetacherGroup(s)
      [] keyword = "fileformatversion" -> ParseFileFormatVersion(s)
      [] keyword = "fileinfo" -> ParseFileinfo(s)
      [] keyword = "flexbody_camera_mode" -> ParseDirectiveFlexbodyCameraMode(s)
      [] keyword = "extcamera" -> ParseExtCamera(s)
      [] keyword = "forset" -> ParseDirectiveForset(s)
      [] keyword = "prop_camera_mode" -> ParseDirectivePropCameraMode(s)
      [] keyword = "section" -> ParseDirectiveSection(s)
      [] keyword = "set_beam_defaults" -> ParseDirectiveSetBeamDefaults(s)
      [] keyword = "set_beam_defaults_scale" -> ParseDirectiveSetBeamDefaultsScale(s)
      [] keyword = "set_default_minimass" -> ParseDirectiveSetDefaultMinimass(s)
      [] keyword = "set_inertia_defaults" -> ParseDirectiveSetInertiaDefaults(s)
      [] keyword = "set_managedmaterials_options" -> ParseDirectiveSetManagedMaterialsOptions(s)
      [] keyword = "set_node_defaults" -> ParseDirectiveSetNodeDefaults(s)
      [] keyword = "set_skeleton_settings" -> ParseSetSkeletonSettings(s)
      [] keyword = "submesh" -> ParseDirectiveSubmesh(s)
      [] keyword = "tractioncontrol" -> ParseTractionControl(s)
      [] keyword \in {"end_comment", "end_description", "end"} ->
            IF \/ s.m_current_block = KEYWORD_INVALID
               \/ keyword = "end_comment" /\ s.m_current_block /= "comment"
               \/ keyword = "end_description" /\ s.m_current_block /= "description"
            THEN LogMessage(s, CONSOLE_SYSTEM_ERROR, "Misplaced keyword, ignoring...")
            ELSE BeginBlock(s, KEYWORD_INVALID)
      [] keyword \in ObsoleteKeywords -> IgnoreObsoleteKeyword(s, keyword)
      [] OTHER -> BeginBlock(s, keyword)

\* the first switch of ProcessCurrentLine: the keyword of the line
ProcessKeyword(s, keyword) ==
    CASE keyword \in GlobalDirectives -> ProcessGlobalDirective(s, keyword)
      [] keyword = "end_section" -> ProcessChangeModuleLine(s, keyword)
      [] keyword = "antilockbrakes" -> ParseAntiLockBrakes(s)
      [] keyword = "author" -> ParseAuthor(s)
      [] keyword = "backmesh" -> ParseDirectiveBackmesh(s)
      [] keyword = "detacher_group" -> ParseDirectiveDetacherGroup(s)
      [] keyword = "fileformatversion" -> ParseFileFormatVersion(s)
      [] keyword = "fileinfo" -> ParseFileinfo(s)
      [] keyword = "flexbody_camera_mode" -> ParseDirectiveFlexbodyCameraMode(s)
      [] keyword = "extcamera" -> ParseExtCamera(s)
      [] keyword = "forset" -> ParseDirectiveForset(s)
      [] keyword = "prop_camera_mode" -> ParseDirectivePropCameraMode(s)
      [] keyword = "section" -> ParseDirectiveSection(s)
      [] keyword = "set_beam_defaults" -> ParseDirectiveSetBeamDefaults(s)
      [] keyword = "set_beam_defaults_scale" -> ParseDirectiveSetBeamDefaultsScale(s)
      [] keyword = "set_default_minimass" -> ParseDirectiveSetDefaultMinimass(s)
      [] keyword = "set_inertia_defaults" -> ParseDirectiveSetInertiaDefaults(s)
      [] keyword = "set_managedmaterials_options" -> ParseDirectiveSetManagedMaterialsOptions(s)
      [] keyword = "set_node_defaults" -> ParseDirectiveSetNodeDefaults(s)
      [] keyword = "set_skeleton_settings" -> ParseSetSkeletonSettings(s)
      [] keyword = "submesh" -> ParseDirectiveSubmesh(s)
      [] keyword = "tractioncontrol" -> ParseTractionControl(s)
      [] keyword \in {"end_comment", "end_description", "end"} ->
            BeginBlock(s, KEYWORD_INVALID)
      [] keyword \in ObsoleteKeywords -> IgnoreObsoleteKeyword(s, keyword)
      [] OTHER -> BeginBlock(s, keyword)

\* mutant: a first line which holds a keyword is processed as a keyword line
ProcessCurrentLine_KeywordBeforeName(s) ==
    IF s.m_current_line.text = "comment" THEN s
    ELSE IF /\ s.m_definition.name = <<>>
            /\ s.m_current_line.text /= "blank"
            /\ s.m_current_line.kw = KEYWORD_INVALID
    THEN [s EXCEPT !.m_definition.name = <<s.m_current_line>>]
    ELSE
    LET s1 == IF s.m_current_block \notin {"comment", "description"}
              THEN TokenizeCurrentLine(s) ELSE s
        keyword == IdentifyKeywordInCurrentLine(s1)
        s2 == [s1 EXCEPT !.m_log_keyword = keyword]
    IN  IF keyword /= KEYWORD_INVALID THEN ProcessKeyword(s2, keyword)
        ELSE ParseCurrentBlock([s2 EXCEPT !.m_log_keyword = s2.m_current_block])

ProcessCurrentLine(s) ==
    IF s.m_current_line.text = "comment" THEN s
    ELSE IF s.m_definition.name = <<>> /\ s.m_current_line.text /= "blank"
    THEN [s EXCEPT !.m_definition.name = <<s.m_current_line>>]
    ELSE
    LET s1 == IF s.m_current_block \notin {"comment", "description"}
              THEN TokenizeCurrentLine(s) ELSE s
        keyword == IdentifyKeywordInCurrentLine(s1)
        s2 == [s1 EXCEPT !.m_log_keyword = keyword]
    IN  IF keyword /= KEYWORD_INVALID THEN ProcessKeyword(s2, keyword)
        ELSE ParseCurrentBlock([s2 EXCEPT !.m_log_keyword = s2.m_current_block])

ProcessRawLine(s, line) ==
    IF line.text \in {"blank", "comment"}
    THEN [s EXCEPT !.m_current_line_number = @ + 1]
    ELSE [ProcessCurrentLine([s EXCEPT !.m_current_line = line])
            EXCEPT !.m_current_line_number = @ + 1]

Finalize(s) ==
    [ImporterProcess(BeginBlock(s, KEYWORD_INVALID)) EXCEPT !.stream = "finalized"]

(***************************************************************************)
(* Parser::Parser() followed by Prepare().                                 *)
(***************************************************************************)
Prepare ==
    [ m_current_line |-> Line("blank", KEYWORD_INVALID, <<>>),
      m_current_line_number |-> 1,
      m_args |-> <<>>,
      m_num_args |-> 0,
      m_current_block |-> KEYWORD_INVALID,
      m_log_keyword |-> KEYWORD_INVALID,
      m_definition |-> [name |-> <<>>, flags |-> {}, user_modules |-> <<>>],
      modules |-> <<NewModule(ROOT_MODULE_NAME)>>,
      m_current_module |-> m_root_module,
      heap |-> [nd |-> <<NewNodeDefaults>>, bd |-> <<PreparedBeamDefaults>>,
                inertia |-> <<NewInertia>>, minimass |-> <<>>],
      m_user_node_defaults |-> m_ror_node_defaults,
      m_user_beam_defaults |-> 1,
      m_user_default_inertia |-> m_ror_default_inertia,
      m_set_default_minimass |-> 0,
      m_current_managed_material_options |-> NewManagedMaterialsOptions,
      m_current_detacher_group |-> 0,
      m_current_submesh |-> <<>>,
      m_current_camera_rail |-> <<>>,
      m_any_named_node_defined |-> FALSE,
      m_sequential_importer |-> ImporterInit(TRUE),
      console |-> <<>>,
      stream |-> "open" ]

\* Prepare() on a parser s which has parsed a document: the members which
\* Prepare() assigns, each as it assigns it; every other member stays as the
\* document before left it.  The File and its root module are new objects,
\* as are the beam defaults.
PrepareFrom(s) ==
    [Alloc(s, "bd", PreparedBeamDefaults) EXCEPT
        !.m_current_block = KEYWORD_INVALID,
        !.m_current_line_number = 1,
        !.m_definition = [name |-> <<>>, flags |-> {}, user_modules |-> <<>>],
        !.modules = <<NewModule(ROOT_MODULE_NAME)>>,
        !.m_any_named_node_defined = FALSE,
        !.m_current_detacher_group = 0,
        !.m_user_default_inertia = m_ror_default_inertia,
        !.m_user_node_defaults = m_ror_node_defaults,
        !.m_current_managed_material_options = NewManagedMaterialsOptions,
        !.m_user_beam_defaults = NewPtr(s, "bd"),
        !.m_current_module = m_root_module,
        !.m_sequential_importer = ImporterInit(TRUE),
        !.stream = "open"]

Init ==
    /\ m_current_line = Prepare.m_current_line
    /\ m_current_line_number = Prepare.m_current_line_number
    /\ m_args = Prepare.m_args
    /\ m_num_args = Prepare.m_num_args
    /\ m_current_block = Prepare.m_current_block
    /\ m_log_keyword = Prepare.m_log_keyword
    /\ m_definition = Prepare.m_definition
    /\ modules = Prepare.modules
    /\ m_current_module = Prepare.m_current_module
    /\ heap = Prepare.heap
    /\ m_user_node_defaults = Prepare.m_user_node_defaults
    /\ m_user_beam_defaults = Prepare.m_user_beam_defaults
    /\ m_user_default_inertia = Prepare.m_user_default_inertia
    /\ m_set_default_minimass = Prepare.m_set_default_minimass
    /\ m_current_managed_material_options = Prepare.m_current_managed_material_options
    /\ m_current_detacher_group = Prepare.m_current_detacher_group
    /\ m_current_submesh = Prepare.m_current_submesh
    /\ m_current_camera_rail = Prepare.m_current_camera_rail
    /\ m_any_named_node_defined = Prepare.m_any_named_node_defined
    /\ m_sequential_importer = Prepare.m_sequential_importer
    /\ console = Prepare.console
    /\ stream = Prepare.stream

(***************************************************************************)
(* Input lines.                                                            *)
(***************************************************************************)
\* a line starting with keyword kw: the keyword is token 0
KeywordLine(kw, args) == Line("text", kw, << <<kw>> >> \o args)

\* a line without keyword
DataLine(args) == Line("text", KEYWORD_INVALID, args)

\* the first line of the documents of the model: a title without keyword
TitleLine == DataLine(<< <<"T">> >>)

Neg1 == <<"-", "1">>

(***************************************************************************)
(* Steps: ProcessOgreStream hands one line to ProcessRawLine; at the end   *)
(* of the stream the caller runs Finalize.                                 *)
(***************************************************************************)
ReadLine(line, max_lines) ==
    /\ stream = "open"
    /\ m_current_line_number <= max_lines
    /\ Becomes(ProcessRawLine(State, line))

ReadTitle(max_lines) ==
    /\ m_definition.name = <<>>
    /\ ReadLine(TitleLine, max_lines)

ReadOneOf(lines, max_lines) ==
    /\ m_definition.name /= <<>>
    /\ \E line \in lines : ReadLine(line, max_lines)

EndOfStream ==
    /\ stream = "open"
    /\ Becomes(Finalize(State))

\* stream->readLine throws: ProcessOgreStream puts one error message, which
\* holds no line number and no keyword, and leaves its loop
ReadFailure ==
    /\ stream = "open"
    /\ m_definition.name /= <<>>
    /\ Becomes([State EXCEPT
                  !.console = Append(@, [type |-> CONSOLE_SYSTEM_ERROR,
                                         msg |-> "Could not read truck file"]),
                  !.stream = "read_failed"])

(***************************************************************************)
(* Documents about the node defaults: nodes sections and set_node_defaults *)
(***************************************************************************)
NodeSectionLines == {KeywordLine("nodes", <<>>), KeywordLine("nodes2", <<>>)}

NodeDataLines ==
    { DataLine(<< <<"7">>, <<"0">>, <<"0">>, <<"0">> >>),
      DataLine(<< <<"a", "1">>, <<"0">>, <<"0">>, <<"0">>, <<"l", "q">>, <<"5">> >>) }

SetNodeDefaultsLines ==
    { KeywordLine("set_node_defaults", <<>>),
      KeywordLine("set_node_defaults", << <<"2">> >>),
      KeywordLine("set_node_defaults", << Neg1, <<"3">>, Neg1, <<"4">>, <<"c", "z">> >>),
      KeywordLine("set_node_defaults", << <<"6">>, Neg1, <<"8">> >>) }

OpenNodeSection == ReadOneOf(NodeSectionLines, MaxLines)

ReadNodeLine == ReadOneOf(NodeDataLines, MaxLines)

ReadSetNodeDefaults == ReadOneOf(SetNodeDefaultsLines, MaxLines)

NextNodeDefaults ==
    \/ ReadTitle(MaxLines)
    \/ OpenNodeSection
    \/ ReadNodeLine
    \/ ReadSetNodeDefaults
    \/ EndOfStream

SpecNodeDefaults == Init /\ [][NextNodeDefaults]_vars

(***************************************************************************)
(* Reading the steps: a step that hands a line of the document body to     *)
(* ProcessCurrentLine (the title is already set), and what it leaves alone *)
(***************************************************************************)
\* this step processed one line of the body; the line is m_current_line'
BodyLineStep ==
    /\ stream = "open"
    /\ m_definition.name /= <<>>
    /\ m_current_line_number' = m_current_line_number + 1

\* number of records held by all modules
RECURSIVE SumLen(_, _)
SumLen(m, colls) ==
    IF colls = {} THEN 0
    ELSE LET c == CHOOSE x \in colls : TRUE
         IN  Len(m[c]) + SumLen(m, colls \ {c})

RECURSIVE TotalRecordsUpTo(_, _)
TotalRecordsUpTo(mods, n) ==
    IF n = 0 THEN 0 ELSE SumLen(mods[n], Collections) + TotalRecordsUpTo(mods, n - 1)

TotalRecords(mods) == TotalRecordsUpTo(mods, Len(mods))

\* q extends p at its end
IsPrefix(p, q) == Len(p) <= Len(q) /\ SubSeq(q, 1, Len(p)) = p

\* the defaults context
DefaultsUnchanged ==
    /\ heap' = heap
    /\ m_user_node_defaults' = m_user_node_defaults
    /\ m_user_beam_defaults' = m_user_beam_defaults
    /\ m_user_default_inertia' = m_user_default_inertia
    /\ m_set_default_minimass' = m_set_default_minimass
    /\ m_current_managed_material_options' = m_current_managed_material_options
    /\ m_current_detacher_group' = m_current_detacher_group

\* everything a rejected line must leave alone
ParserStateUnchanged ==
    /\ DefaultsUnchanged
    /\ modules' = modules
    /\ m_definition' = m_definition
    /\ m_current_module' = m_current_module
    /\ m_current_block' = m_current_block
    /\ m_current_submesh' = m_current_submesh
    /\ m_current_camera_rail' = m_current_camera_rail
    /\ m_any_named_node_defined' = m_any_named_node_defined
    /\ m_sequential_importer' = m_sequential_importer

\* the step logged exactly one message, of the given type
LoggedOne(type) ==
    /\ Len(console') = Len(console) + 1
    /\ SubSeq(console', 1, Len(console)) = console
    /\ console'[Len(console')].type = type

(***************************************************************************)
(* C1  Node-defaults snapshot isolation.                                   *)
(***************************************************************************)
\* the NodeDefaults object a node record captured
CapturedNodeDefaults(h, node) == h.nd[node.node_defaults]

NodeDefaultsKept ==
    \A m \in DOMAIN modules : \A i \in DOMAIN modules[m].nodes :
        /\ m \in DOMAIN modules' /\ i \in DOMAIN modules'[m].nodes
        /\ modules'[m].nodes[i] = modules[m].nodes[i]
        /\ CapturedNodeDefaults(heap', modules'[m].nodes[i])
             = CapturedNodeDefaults(heap, modules[m].nodes[i])

NodeDefaultsCapturedAtCreation ==
    \A m \in DOMAIN modules' : \A i \in DOMAIN modules'[m].nodes :
        (m \notin DOMAIN modules \/ i \notin DOMAIN modules[m].nodes)
        => CapturedNodeDefaults(heap', modules'[m].nodes[i])
             = heap.nd[m_user_node_defaults]

\* C1: the node defaults captured by a node record (load weight, friction,
\* volume, surface, options) are the same after every later step, whatever
\* set_node_defaults directives it processes; a record created by a step
\* captures the values that were current when its line arrived, so only
\* records created after a directive see that directive's values.
C1_NodeDefaultsSnapshotIsolation ==
    [][NodeDefaultsKept /\ NodeDefaultsCapturedAtCreation]_vars

\* R1 was created, a set_node_defaults was processed, R2 was created: the two
\* records of the root module captured different values, R2 the current ones
C1_Witness ==
    /\ Len(modules[1].nodes) >= 2
    /\ CapturedNodeDefaults(heap, modules[1].nodes[1])
         /= CapturedNodeDefaults(heap, modules[1].nodes[2])
    /\ CapturedNodeDefaults(heap, modules[1].nodes[1]) = NewNodeDefaults
    /\ modules[1].nodes[2].node_defaults = m_user_node_defaults
    /\ m_user_node_defaults /= m_ror_node_defaults

(***************************************************************************)
(* Documents about the other defaults chains: beam defaults and their      *)
(* scale, inertia defaults, default minimass, managed-material options and *)
(* the detacher group, with the sections whose records capture them.       *)
(***************************************************************************)
ChainSectionLines ==
    { KeywordLine("nodes", <<>>), KeywordLine("hydros", <<>>),
      KeywordLine("managedmaterials", <<>>) }

ChainDataLines ==
    { DataLine(<< <<"7">>, <<"0">>, <<"0">>, <<"0">> >>),
      DataLine(<< <<"m", "a", "t">>, <<"mesh_standard">>, <<"t", "e", "x">> >>) }

ChainDirectiveLines ==
    { KeywordLine("set_beam_defaults", << <<"5">>, Neg1, <<"6">> >>),
      KeywordLine("set_beam_defaults_scale", << <<"2">>, <<"2">>, <<"2">>, <<"2">> >>),
      KeywordLine("set_inertia_defaults", << <<"3">>, <<"4">> >>),
      KeywordLine("set_inertia_defaults", << Neg1 >>),
      KeywordLine("set_default_minimass", << <<"9">> >>),
      KeywordLine("set_managedmaterials_options", << <<"1">> >>),
      KeywordLine("detacher_group", << <<"3">> >>) }

OpenChainSection == ReadOneOf(ChainSectionLines, MaxLines)

ReadChainRecord == ReadOneOf(ChainDataLines, MaxLines)

ReadChainDirective == ReadOneOf(ChainDirectiveLines, MaxLines)

NextDefaultsChains ==
    \/ ReadTitle(MaxLines)
    \/ OpenChainSection
    \/ ReadChainRecord
    \/ ReadChainDirective
    \/ EndOfStream

SpecDefaultsChains == Init /\ [][NextDefaultsChains]_vars

(***************************************************************************)
(* C2  Snapshot isolation of the other defaults chains.                    *)
(***************************************************************************)
\* the step is Finalize(), run by the caller at the end of the stream
FinalizeStep == stream = "open" /\ stream' = "finalized"

\* the record new of kind c is the record old, but for the node references
\* which the finalize pass of the importer rewrites
SameButNodeRefs(c, old, new) ==
    CASE c \in {"beams", "hydros", "camerarail", "cinecam"} ->
             [new EXCEPT !.nodes = old.nodes] = old
      [] c \in {"wheels", "wheels_2", "mesh_wheels", "flexbodywheels"} ->
             [new EXCEPT !.nodes = old.nodes,
                         !.rigidity_node = old.rigidity_node,
                         !.reference_arm_node = old.reference_arm_node] = old
      [] c = "flexbodies" ->
             [new EXCEPT !.reference_node = old.reference_node,
                         !.x_axis_node = old.x_axis_node,
                         !.y_axis_node = old.y_axis_node] = old
      [] OTHER -> new = old

\* every record stays where it is, as it is; the finalize pass alone may
\* rewrite its node references
RecordsKept ==
    \A m \in DOMAIN modules :
        /\ m \in DOMAIN modules'
        /\ \A c \in Collections :
               /\ Len(modules[m][c]) <= Len(modules'[m][c])
               /\ \A i \in DOMAIN modules[m][c] :
                      IF FinalizeStep
                      THEN SameButNodeRefs(c, modules[m][c][i], modules'[m][c][i])
                      ELSE modules'[m][c][i] = modules[m][c][i]

\* no defaults object is written after its allocation
HeapKept == \A h \in DOMAIN heap : IsPrefix(heap[h], heap'[h])

\* the records a step appended to collection c
NewRecords(c) ==
    UNION { { modules'[m][c][i] : i \in (DOMAIN modules'[m][c]) \ (DOMAIN modules[m][c]) }
            : m \in (DOMAIN modules) \cap (DOMAIN modules') }

ChainsCapturedAtCreation ==
    /\ \A r \in NewRecords("nodes") :
           /\ r.beam_defaults = m_user_beam_defaults
           /\ r.default_minimass = m_set_default_minimass
           /\ r.detacher_group = m_current_detacher_group
    /\ \A r \in NewRecords("hydros") :
           /\ r.beam_defaults = m_user_beam_defaults
           /\ r.inertia_defaults = m_user_default_inertia
           /\ r.detacher_group = m_current_detacher_group
    /\ \A r \in NewRecords("beams") :
           /\ r.defaults = m_user_beam_defaults
           /\ r.detacher_group = m_current_detacher_group
    /\ \A r \in NewRecords("managedmaterials") :
           r.options = m_current_managed_material_options

\* C2: the beam defaults (and scale), inertia defaults, default minimass,
\* managed-material options and detacher group captured by a record are the
\* same after every later step, whatever set_beam_defaults,
\* set_beam_defaults_scale, set_inertia_defaults, set_default_minimass,
\* set_managedmaterials_options or detacher_group lines it processes; a new
\* record captures the values current when its line arrived.
C2_DefaultsChainsSnapshotIsolation ==
    [][RecordsKept /\ HeapKept /\ ChainsCapturedAtCreation]_vars

\* a node record was created and then set_beam_defaults and detacher_group
\* were processed: its beam defaults and detacher group are not the current ones
C2_Witness ==
    \E i \in DOMAIN modules[1].nodes :
        /\ heap.bd[modules[1].nodes[i].beam_defaults] = PreparedBeamDefaults
        /\ heap.bd[m_user_beam_defaults] /= PreparedBeamDefaults
        /\ modules[1].nodes[i].detacher_group = 0
        /\ m_current_detacher_group = 3

(***************************************************************************)
(* Documents about the argument-count gate: sections and directives whose  *)
(* parsers start with CheckNumArguments(N), with lines below, at and above *)
(* the minimum.                                                            *)
(***************************************************************************)
GateSectionLines ==
    { KeywordLine("engine", <<>>), KeywordLine("nodes", <<>>),
      KeywordLine("beams", <<>>), KeywordLine("hydros", <<>>),
      KeywordLine("minimass", <<>>), KeywordLine("managedmaterials", <<>>) }

GateDataLines ==
    { DataLine(<<>>),
      DataLine(<< <<"1">> >>),
      DataLine(<< <<"1">>, <<"2">> >>),
      DataLine(<< <<"1">>, <<"2">>, <<"3">> >>),
      DataLine(<< <<"1">>, <<"2">>, <<"3">>, <<"4">> >>),
      DataLine(<< <<"1">>, <<"2">>, <<"3">>, <<"4">>, <<"5">>, <<"6">> >>),
      DataLine(<< <<"1">>, <<"2">>, <<"3">>, <<"4">>, <<"5">>, <<"6">>, <<"7">> >>) }

GateDirectiveLines ==
    { KeywordLine("author", <<>>),
      KeywordLine("author", << <<"x">> >>),
      KeywordLine("set_node_defaults", <<>>),
      KeywordLine("set_node_defaults", << <<"2">> >>),
      KeywordLine("section", << <<"0">> >>),
      KeywordLine("section", << <<"0">>, <<"alpha">> >>) }

OpenGateSection == ReadOneOf(GateSectionLines, MaxLinesGate)

ReadGateData == ReadOneOf(GateDataLines, MaxLinesGate)

ReadGateDirective == ReadOneOf(GateDirectiveLines, MaxLinesGate)

NextArgGate ==
    \/ ReadTitle(MaxLinesGate)
    \/ OpenGateSection
    \/ ReadGateData
    \/ ReadGateDirective
    \/ EndOfStream

SpecArgGate == Init /\ [][NextArgGate]_vars

(***************************************************************************)
(* C3  Argument-count gate.                                                *)
(***************************************************************************)
\* the minimum each record parser hands to CheckNumArguments, by open block
BlockMinArgs ==
    [b \in {"engine", "nodes", "nodes2", "beams", "hydros", "minimass",
            "managedmaterials"} |->
        CASE b = "engine" -> 6
          [] b \in {"nodes", "nodes2"} -> 4
          [] b = "hydros" -> 3
          [] b \in {"beams", "managedmaterials"} -> 2
          [] b = "minimass" -> 1]

\* the minimum each directive parser hands to CheckNumArguments, by keyword
DirectiveMinArgs ==
    [k \in {"author", "set_node_defaults", "section"} |->
        IF k = "section" THEN 3 ELSE 2]

\* the minimum of the parser that line is dispatched to when block is open; 0: no gate
MinArgsOf(line, block) ==
    IF line.kw = KEYWORD_INVALID
    THEN IF block \in DOMAIN BlockMinArgs THEN BlockMinArgs[block] ELSE 0
    ELSE IF line.kw \in DOMAIN DirectiveMinArgs THEN DirectiveMinArgs[line.kw] ELSE 0

\* the step sent a line to a gated parser
GatedStep == BodyLineStep /\ MinArgsOf(m_current_line', m_current_block) > 0

TooFewTokens == Len(m_current_line'.toks) < MinArgsOf(m_current_line', m_current_block)

ExactTokens == Len(m_current_line'.toks) = MinArgsOf(m_current_line', m_current_block)

GateRejects == ParserStateUnchanged /\ LoggedOne(CONSOLE_SYSTEM_WARNING)

\* the step appended one record, to collection coll of the current module
AppendedOneTo(coll) ==
    /\ TotalRecords(modules') = TotalRecords(modules) + 1
    /\ Len(modules') = Len(modules)
    /\ Len(modules'[m_current_module][coll]) = Len(modules[m_current_module][coll]) + 1

\* C3 as stated: below the minimum nothing happens but one warning; a line
\* with exactly the minimum appends exactly one record
C3_AsStated ==
    [][GatedStep =>
          /\ TooFewTokens => GateRejects
          /\ ExactTokens => TotalRecords(modules') = TotalRecords(modules) + 1]_vars

\* C3 (amended): a line with fewer tokens than the minimum N of its parser
\* appends no record, changes no parser state and logs exactly one warning.  A
\* line with exactly N tokens appends exactly one record to the current module
\* in nodes, nodes2, beams, hydros, minimass and author; an engine line of
\* exactly 6 tokens has no forward gear (one error, no record), a
\* managedmaterials line of exactly 2 tokens is refused with one warning, and
\* set_node_defaults and section create no record.
C3_ArgumentCountGate ==
    [][GatedStep =>
          LET line == m_current_line'
              parser == IF line.kw = KEYWORD_INVALID THEN m_current_block ELSE line.kw
          IN  /\ TooFewTokens => GateRejects
              /\ (ExactTokens /\ parser \in {"nodes", "nodes2", "beams", "hydros",
                                             "minimass", "author"})
                     => AppendedOneTo(IF parser = "nodes2" THEN "nodes" ELSE parser)
              /\ (ExactTokens /\ parser = "engine")
                     => modules' = modules /\ LoggedOne(CONSOLE_SYSTEM_ERROR)
              /\ (ExactTokens /\ parser = "managedmaterials")
                     => modules' = modules /\ LoggedOne(CONSOLE_SYSTEM_WARNING)
              /\ (ExactTokens /\ parser \in {"set_node_defaults", "section"})
                     => TotalRecords(modules') = TotalRecords(modules)]_vars

\* in a nodes section a line of 1 token was refused and a line of exactly 4
\* tokens made a node
C3_Witness ==
    /\ m_current_line = DataLine(<< <<"1">>, <<"2">>, <<"3">>, <<"4">> >>)
    /\ Len(modules[1].nodes) = 1
    /\ Len(console) = 1
    /\ console[1].keyword = "nodes"
    /\ console[1].msg = "Not enough arguments"

(***************************************************************************)
(* Documents about module switching: section and end_section lines, with   *)
(* author lines as the records (a directive that appends one record to the *)
(* current module whatever block is open).                                 *)
(***************************************************************************)
SectionAlpha == KeywordLine("section", << <<"0">>, <<"alpha">> >>)

SectionBeta == KeywordLine("section", << <<"0">>, <<"beta">> >>)

EndSection == KeywordLine("end_section", <<>>)

AuthorLine == KeywordLine("author", << <<"x">> >>)

EnterModule == ReadOneOf({SectionAlpha, SectionBeta}, MaxLinesModules)

LeaveModule == ReadOneOf({EndSection}, MaxLinesModules)

ReadAuthor == ReadOneOf({AuthorLine}, MaxLinesModules)

NextModules ==
    \/ ReadTitle(MaxLinesModules)
    \/ EnterModule
    \/ LeaveModule
    \/ ReadAuthor
    \/ EndOfStream

SpecModules == Init /\ [][NextModules]_vars

(***************************************************************************)
(* C4  Module switching.                                                   *)
(***************************************************************************)
\* the Module object registered under name: the root, a user module, or 0
ModuleNamed(defn, name) ==
    IF name = ROOT_MODULE_NAME THEN m_root_module
    ELSE IF UserModulesFind(defn.user_modules, name) = 0 THEN 0
    ELSE defn.user_modules[UserModulesFind(defn.user_modules, name)].module

\* no two entries of the module map have the same name, and every Module
\* object is the root or the one entry of the map that names it
ModuleMapIsFunction ==
    /\ \A i, j \in DOMAIN m_definition.user_modules :
           m_definition.user_modules[i].name = m_definition.user_modules[j].name => i = j
    /\ \A m \in DOMAIN modules : ModuleNamed(m_definition, modules[m].name) = m

\* a record line appends to the current module and to no other
RecordGoesToCurrentModule ==
    (BodyLineStep /\ m_current_line' = AuthorLine) =>
        /\ m_current_module' = m_current_module
        /\ modules' = [modules EXCEPT ![m_current_module].author =
                          Append(@, modules'[m_current_module].author[Len(@) + 1])]

\* a section line that names a module entered before makes that same Module
\* object current, with every record it held
SwitchKeepsModules ==
    (BodyLineStep /\ m_current_line'.kw \in {"section", "end_section"}) =>
        /\ RecordsKept
        /\ LET name == IF m_current_line'.kw = "end_section" THEN ROOT_MODULE_NAME
                       ELSE m_current_line'.toks[3]
           IN  m_current_module' /= m_current_module =>
                   /\ modules'[m_current_module'].name = name
                   /\ ModuleNamed(m_definition, name) /= 0
                          => m_current_module' = ModuleNamed(m_definition, name)

\* C4: records are appended to the module that is current when their line
\* arrives (after `section <v> alpha`, two records, `end_section`, one record:
\* alpha holds the first two and the root the last), a later
\* `section <v> alpha` makes the same module current again with its earlier
\* records kept, and the module map never holds two modules of one name.
C4_ModuleSwitching ==
    [][/\ RecordGoesToCurrentModule
       /\ SwitchKeepsModules
       /\ ModuleMapIsFunction /\ ModuleMapIsFunction']_vars

\* section alpha, two records, end_section, one record, section alpha, one
\* record, in seven body lines without diagnostics: alpha was left and
\* re-entered, and holds three records, the root one
C4_Witness ==
    /\ m_current_line = AuthorLine
    /\ m_current_line_number = 9
    /\ console = <<>>
    /\ Len(m_definition.user_modules) = 1
    /\ m_current_module = ModuleNamed(m_definition, <<"alpha">>)
    /\ m_current_module /= m_root_module
    /\ Len(modules) = 2
    /\ Len(modules[m_current_module].author) = 3
    /\ Len(modules[m_root_module].author) = 1

(***************************************************************************)
(* Documents about switches with a block open or an object staged:         *)
(* section lines (good and short), end_section, a beams section with its   *)
(* data line, submesh and camerarail.                                      *)
(***************************************************************************)
SectionShort == KeywordLine("section", << <<"0">> >>)

BeamLine == DataLine(<< <<"1">>, <<"2">> >>)

SwitchLines == {SectionAlpha, SectionShort, EndSection}

SwitchBlockLines ==
    { KeywordLine("beams", <<>>), KeywordLine("camerarail", <<>>),
      KeywordLine("submesh", <<>>) }

ReadSwitchLine == ReadOneOf(SwitchLines, MaxLinesSwitch)

OpenSwitchBlock == ReadOneOf(SwitchBlockLines, MaxLinesSwitch)

ReadBeamLine == ReadOneOf({BeamLine}, MaxLinesSwitch)

NextSwitch ==
    \/ ReadTitle(MaxLinesSwitch)
    \/ ReadSwitchLine
    \/ OpenSwitchBlock
    \/ ReadBeamLine
    \/ EndOfStream

SpecSwitch == Init /\ [][NextSwitch]_vars

(***************************************************************************)
(* C5  A module switch closes the open block.                              *)
(***************************************************************************)
\* the step processed a section or end_section line and the module changed
SwitchStep ==
    /\ BodyLineStep
    /\ m_current_line'.kw \in {"section", "end_section"}
    /\ m_current_module' /= m_current_module

\* the step processed a line without keyword while no block was open
DataLineWithoutBlock ==
    /\ BodyLineStep
    /\ m_current_line'.kw = KEYWORD_INVALID
    /\ m_current_block = KEYWORD_INVALID

RejectedSwitch(line) ==
    \/ line.kw = "end_section" /\ m_current_module = m_root_module
    \/ line.kw = "section" /\ Len(line.toks) < 3
    \/ line.kw = "section" /\ Len(line.toks) >= 3
          /\ line.toks[3] = modules[m_current_module].name

\* C6: a section line naming the current module, an end_section line in the
\* root module and a section line of fewer than 3 tokens each log exactly one
\* diagnostic and leave the current module, the open block, the staged
\* submesh and camera-rail, the modules and the module map as they were.
C6_RejectedSwitchChangesNothing ==
    [][(BodyLineStep /\ RejectedSwitch(m_current_line')) =>
          /\ Len(console') = Len(console) + 1
          /\ SubSeq(console', 1, Len(console)) = console
          /\ ParserStateUnchanged]_vars

\* in module alpha, with a submesh staged and the beams block open, a second
\* `section 0 alpha` was refused: everything is still in place
C6_Witness ==
    /\ m_current_line = SectionAlpha
    /\ m_current_module /= m_root_module
    /\ m_current_submesh /= <<>>
    /\ m_current_block = "beams"
    /\ Len(console) = 1
    /\ console[1].msg = "Attempt to re-enter current module, ignoring..."

(***************************************************************************)
(* C7  Directives with arguments and the open block.                       *)
(***************************************************************************)
\* the directives with arguments the statement names
DirectivesWithArguments ==
    {"author", "fileinfo", "fileformatversion", "detacher_group", "submesh",
     "set_beam_defaults", "set_beam_defaults_scale", "set_default_minimass",
     "set_inertia_defaults", "set_managedmaterials_options", "set_node_defaults"}

\* C7: a directive with arguments does not change the open section: after
\* the line the open block is the block that was open before it.
C7_DirectiveKeepsBlock ==
    [][(BodyLineStep /\ m_current_line'.kw \in DirectivesWithArguments)
          => m_current_block' = m_current_block]_vars

(***************************************************************************)
(* C8  Data-line routing.                                                  *)
(***************************************************************************)
\* the collection the record parser of block appends to
CollectionOf(block) == IF block = "nodes2" THEN "nodes" ELSE block

\* the step handed a line without keyword to the record parser of the open block
RoutedDataStep ==
    /\ BodyLineStep
    /\ m_current_line'.kw = KEYWORD_INVALID
    /\ m_current_block \in DOMAIN BlockMinArgs

\* the records a routed data line may touch: the collection of the open
\* block in the current module
RoutedToOpenBlock ==
    /\ m_current_module' = m_current_module
    /\ Len(modules') = Len(modules)
    /\ \A m \in DOMAIN modules : \A c \in Collections :
           (m /= m_current_module \/ c /= CollectionOf(m_current_block))
               => modules'[m][c] = modules[m][c]

\* the data line made a record
ParsedSuccessfully == TotalRecords(modules') > TotalRecords(modules)

\* C8 as stated: a line without keyword goes to the record parser of the open
\* section, and a successfully parsed data line never closes its own section
C8_AsStated ==
    [][RoutedDataStep =>
          /\ RoutedToOpenBlock
          /\ ParsedSuccessfully => m_current_block' = m_current_block]_vars

\* C8 (amended): a line without keyword goes to the record parser of the
\* open section and touches that section's records only; it leaves the
\* section open, except in minimass, where the line that makes the record
\* closes the section.
C8_DataLineRouting ==
    [][RoutedDataStep =>
          /\ RoutedToOpenBlock
          /\ m_current_block' =
                 IF m_current_block = "minimass" /\ ParsedSuccessfully
                 THEN KEYWORD_INVALID ELSE m_current_block]_vars

\* minimass and one line: the record is made and the section is closed
C8_Witness ==
    /\ m_current_line = DataLine(<< <<"1">> >>)
    /\ m_current_block = KEYWORD_INVALID
    /\ Len(modules[m_root_module].minimass) = 1
    /\ m_current_line_number = 4

(***************************************************************************)
(* Documents about staged objects: submesh with texcoords and cab,         *)
(* camerarail, a beams section, end, and module switches.                  *)
(***************************************************************************)
StagedKeywordLines ==
    { KeywordLine("submesh", <<>>), KeywordLine("camerarail", <<>>),
      KeywordLine("texcoords", <<>>), KeywordLine("cab", <<>>),
      KeywordLine("beams", <<>>), KeywordLine("end", <<>>) }

StagedDataLine == DataLine(<< <<"1">>, <<"2">>, <<"3">> >>)

ReadStagedKeyword == ReadOneOf(StagedKeywordLines, MaxLinesStaged)

ReadStagedData == ReadOneOf({StagedDataLine}, MaxLinesStaged)

ReadStagedSwitch == ReadOneOf({SectionAlpha, EndSection}, MaxLinesStaged)

NextStaged ==
    \/ ReadTitle(MaxLinesStaged)
    \/ ReadStagedKeyword
    \/ ReadStagedData
    \/ ReadStagedSwitch
    \/ EndOfStream

SpecStaged == Init /\ [][NextStaged]_vars

(***************************************************************************)
(* C9  Flush on block transition.                                          *)
(***************************************************************************)
SectionOpeningKeywords == {"beams", "texcoords", "cab", "camerarail"}

SectionEndingKeywords == {"end", "end_comment", "end_description"}

\* the staged objects after a line with keyword kw that left none of an
\* earlier block pending: only camerarail stages a new one
NothingPendingAfter(kw) ==
    /\ m_current_submesh' = <<>>
    /\ m_current_camera_rail' = IF kw = "camerarail" THEN <<NewCameraRail>> ELSE <<>>

\* C9 as stated: whatever was staged when a section-opening keyword of any
\* kind arrives is committed or discarded before the section opens, so after
\* the line no object staged by an earlier block is pending
C9_AsStated ==
    [][(BodyLineStep /\ m_current_line'.kw \in SectionOpeningKeywords)
          => NothingPendingAfter(m_current_line'.kw)]_vars

\* the lines that close the staged objects: the section-ending keywords, the
\* camerarail keyword, the submesh directive and a module switch
ClosingStep ==
    /\ BodyLineStep
    /\ \/ m_current_line'.kw \in SectionEndingKeywords \cup {"camerarail", "submesh"}
       \/ SwitchStep

\* the lines that open a section without closing anything
OpeningOnlyStep ==
    /\ BodyLineStep
    /\ m_current_line'.kw \in SectionOpeningKeywords \ {"camerarail"}

\* the staged submesh is appended to the module that was current, once
SubmeshCommitted ==
    /\ modules'[m_current_module].submeshes =
           Append(modules[m_current_module].submeshes, m_current_submesh[1])
    /\ m_current_submesh' =
           IF m_current_line'.kw = "submesh" THEN <<NewSubmesh>> ELSE <<>>

\* the staged camera rail is appended to the module that was current, once
CameraRailCommitted ==
    /\ modules'[m_current_module].camerarail =
           Append(modules[m_current_module].camerarail, m_current_camera_rail[1])
    /\ m_current_camera_rail' =
           IF m_current_line'.kw = "camerarail" THEN <<NewCameraRail>> ELSE <<>>

\* C9 (amended): a section-ending keyword, the camerarail keyword, the submesh
\* directive and a module switch commit the staged submesh and the staged
\* camera rail that holds nodes to the module that was current, before the
\* block changes; every other section-opening keyword (beams, texcoords, cab)
\* leaves the staged submesh and camera rail pending, as they were.
C9_FlushOnBlockTransition ==
    [][/\ ClosingStep =>
             /\ m_current_submesh /= <<>> => SubmeshCommitted
             /\ m_current_submesh = <<>> =>
                    modules'[m_current_module].submeshes
                        = modules[m_current_module].submeshes
             /\ (m_current_camera_rail /= <<>> /\ m_current_camera_rail[1].nodes /= <<>>)
                    => CameraRailCommitted
       /\ OpeningOnlyStep =>
             /\ m_current_submesh' = m_current_submesh
             /\ m_current_camera_rail' = m_current_camera_rail
             /\ modules' = modules
             /\ m_current_block' = m_current_line'.kw]_vars

\* submesh, texcoords, a texcoord line, cab: the submesh staged by the
\* directive is still pending, with its texcoord, when the cab section opens
C9_Witness ==
    /\ m_current_line = KeywordLine("cab", <<>>)
    /\ m_current_block = "cab"
    /\ m_current_submesh /= <<>>
    /\ Len(m_current_submesh[1].texcoords) = 1
    /\ modules[m_root_module].submeshes = <<>>

(***************************************************************************)
(* C10  Closing staged objects.                                            *)
(***************************************************************************)
\* the step closes the staged objects and opens no camerarail section
EndStep == BodyLineStep /\ m_current_line'.kw \in SectionEndingKeywords

\* C10: closing a camerarail block that received no node line logs exactly
\* one warning and discards the staged rail: it is not committed and no
\* camera rail is staged afterwards; a staged submesh is committed exactly
\* once when closed, also without cab triangles.
C10_ClosingStagedObjects ==
    [][EndStep =>
          /\ (m_current_camera_rail /= <<>> /\ m_current_camera_rail[1].nodes = <<>>) =>
                 /\ LoggedOne(CONSOLE_SYSTEM_WARNING)
                 /\ modules'[m_current_module].camerarail
                        = modules[m_current_module].camerarail
                 /\ m_current_camera_rail' = <<>>
          /\ m_current_submesh /= <<>> => SubmeshCommitted]_vars

(***************************************************************************)
(* C11  End of document.                                                   *)
(***************************************************************************)
\* submeshes committed to the modules 1..n
RECURSIVE SubmeshesCommittedUpTo(_, _)
SubmeshesCommittedUpTo(mods, n) ==
    IF n = 0 THEN 0 ELSE Len(mods[n].submeshes) + SubmeshesCommittedUpTo(mods, n - 1)

\* submeshes committed to the modules, and the one staged
SubmeshesMade(mods, staged) == SubmeshesCommittedUpTo(mods, Len(mods)) + Len(staged)

\* C11: after Finalize no staged submesh and no staged camera rail is
\* pending; every submesh directive seen has produced exactly one committed
\* submesh, in directive order (the staged one is appended to the current
\* module, no other line makes or drops one); the staged objects are
\* committed before the finalize pass of the sequential importer runs.
C11_EndOfDocument ==
    [][/\ FinalizeStep =>
             /\ m_current_submesh' = <<>>
             /\ m_current_camera_rail' = <<>>
             /\ m_current_submesh /= <<>> =>
                    modules'[m_current_module].submeshes =
                        Append(modules[m_current_module].submeshes, m_current_submesh[1])
             /\ SubmeshesMade(modules', <<>>) = SubmeshesMade(modules, m_current_submesh)
             /\ m_sequential_importer'.processed
       /\ BodyLineStep =>
             SubmeshesMade(modules', m_current_submesh') =
                 SubmeshesMade(modules, m_current_submesh)
                     + (IF m_current_line'.kw = "submesh" THEN 1 ELSE 0)]_vars

(***************************************************************************)
(* Documents about the block-ending keywords: sections beams, camerarail,  *)
(* comment and description, the submesh directive, data lines and the      *)
(* three keywords which end a block.                                       *)
(***************************************************************************)
EndKeywordLines ==
    { KeywordLine("end", <<>>), KeywordLine("end_comment", <<>>),
      KeywordLine("end_description", <<>>) }

EndBlockLines ==
    { KeywordLine("beams", <<>>), KeywordLine("camerarail", <<>>),
      KeywordLine("comment", <<>>), KeywordLine("description", <<>>),
      KeywordLine("submesh", <<>>) }

ReadEndKeyword == ReadOneOf(EndKeywordLines, MaxLinesEnd)

OpenEndBlock == ReadOneOf(EndBlockLines, MaxLinesEnd)

ReadEndData == ReadOneOf({BeamLine}, MaxLinesEnd)

NextEnd ==
    \/ ReadTitle(MaxLinesEnd)
    \/ ReadEndKeyword
    \/ OpenEndBlock
    \/ ReadEndData
    \/ EndOfStream

SpecEnd == Init /\ [][NextEnd]_vars

(***************************************************************************)
(* C12  Misplaced block-ending keyword.                                    *)
(***************************************************************************)
\* the block-ending keyword kw does not match the open block
MisplacedEnd(kw, block) ==
    \/ block = KEYWORD_INVALID
    \/ kw = "end_comment" /\ block /= "comment"
    \/ kw = "end_description" /\ block /= "description"

\* the step processed a block-ending keyword which does not match the block
MisplacedEndStep == EndStep /\ MisplacedEnd(m_current_line'.kw, m_current_block)

\* C12 as stated: a block-ending keyword that does not match the open block
\* is logged and ignored: one message, the open block stays open and no
\* staged object is flushed
C12_AsStated ==
    [][MisplacedEndStep =>
          /\ Len(console') = Len(console) + 1
          /\ ParserStateUnchanged]_vars

\* C12 (amended): a block-ending keyword (end, end_comment, end_description)
\* is never treated as misplaced: whatever block is open, also one it does
\* not match or none, it closes the block and flushes the staged objects as
\* every close does (the staged submesh and a staged camera rail that holds
\* nodes are committed to the current module); no message about the keyword
\* is logged, the only message of such a line is the warning about a staged
\* camera rail without nodes.
C12_EndKeywordAlwaysCloses ==
    [][EndStep =>
          /\ m_current_block' = KEYWORD_INVALID
          /\ m_current_submesh' = <<>>
          /\ m_current_submesh /= <<>> => SubmeshCommitted
          /\ (m_current_camera_rail /= <<>> /\ m_current_camera_rail[1].nodes /= <<>>)
                 => CameraRailCommitted
          /\ (m_current_submesh = <<>> /\ m_current_camera_rail = <<>>)
                 => modules' = modules
          /\ IF m_current_camera_rail /= <<>> /\ m_current_camera_rail[1].nodes = <<>>
             THEN LoggedOne(CONSOLE_SYSTEM_WARNING)
             ELSE console' = console
          /\ m_current_module' = m_current_module
          /\ m_definition' = m_definition
          /\ DefaultsUnchanged]_vars

\* beams, a beam line, end_description: the beams section is closed by the
\* keyword of another block, without a message
C12_Witness ==
    /\ m_current_line = KeywordLine("end_description", <<>>)
    /\ m_current_block = KEYWORD_INVALID
    /\ Len(modules[m_root_module].beams) = 1
    /\ m_current_line_number = 5
    /\ console = <<>>

(***************************************************************************)
(* C13  Node-defaults inheritance.                                         *)
(***************************************************************************)
\* the step processed a set_node_defaults directive which passed its gate
SetNodeDefaultsStep ==
    /\ BodyLineStep
    /\ m_current_line'.kw = "set_node_defaults"
    /\ Len(m_current_line'.toks) >= 2

\* the value the line gives at token index (from 0); -1 stands for omitted
DirectiveValue(line, index) ==
    IF Len(line.toks) > index THEN ParseReal(line.toks[index + 1]) ELSE 0 - 1

\* load_weight, friction, volume, surface: the token index of each
NodeDefaultsFields ==
    { <<"load_weight", 1>>, <<"friction", 2>>, <<"volume", 3>>, <<"surface", 4>> }

SetBeamDefaultsLines ==
    { KeywordLine("set_beam_defaults", << Neg1 >>),
      KeywordLine("set_beam_defaults", << <<"5">>, Neg1, <<"6">> >>),
      KeywordLine("set_beam_defaults",
                  << <<"5">>, <<"7">>, <<"6">>, <<"8">>, <<"9">>, <<"mat">>, <<"3">> >>),
      KeywordLine("set_beam_defaults",
                  << <<"4">>, Neg1, Neg1, Neg1, Neg1, <<"mat">>, Neg1 >>) }

ReadSetBeamDefaults == ReadOneOf(SetBeamDefaultsLines, MaxLinesBeamDefaults)

OpenBeamsSection == ReadOneOf({KeywordLine("beams", <<>>)}, MaxLinesBeamDefaults)

ReadBeamRecord == ReadOneOf({BeamLine}, MaxLinesBeamDefaults)

NextBeamDefaults ==
    \/ ReadTitle(MaxLinesBeamDefaults)
    \/ ReadSetBeamDefaults
    \/ OpenBeamsSection
    \/ ReadBeamRecord
    \/ EndOfStream

SpecBeamDefaults == Init /\ [][NextBeamDefaults]_vars

(***************************************************************************)
(* C14  Beam-defaults inheritance.                                         *)
(***************************************************************************)
\* the step processed a set_beam_defaults directive which passed its gate
SetBeamDefaultsStep ==
    /\ BodyLineStep
    /\ m_current_line'.kw = "set_beam_defaults"
    /\ Len(m_current_line'.toks) >= 2

\* the fields of the claim with the token index of each
BeamDefaultsFields ==
    { <<"springiness", 1>>, <<"damping_constant", 2>>,
      <<"deformation_threshold", 3>>, <<"breaking_threshold", 4>>,
      <<"visual_beam_diameter", 5>>, <<"plastic_deform_coef", 7>> }

\* the fixed engine constant of a field which has one
EngineConstant(field) ==
    CASE field = "springiness" -> DEFAULT_SPRING
      [] field = "damping_constant" -> DEFAULT_DAMP
      [] field = "deformation_threshold" -> BEAM_DEFORM
      [] field = "breaking_threshold" -> BEAM_BREAK
      [] field = "visual_beam_diameter" -> DEFAULT_BEAM_DIAMETER

\* the field is not on the line
Omitted(line, index) == Len(line.toks) <= index

PlainBeamChars == <<"1", " ", "2">>

SemicolonCommentChars == <<"1", " ", "2", " ", ";", "i">>

SlashCommentChars == <<"1", " ", "2", " ", "/", "/", "c">>

HelpPathChars == <<"4", "/", "h">>

CommentSectionLines == {KeywordLine("beams", <<>>), KeywordLine("help", <<>>)}

CommentDataLines ==
    { RawLine(PlainBeamChars), RawLine(SemicolonCommentChars),
      RawLine(SlashCommentChars), RawLine(HelpPathChars) }

OpenCommentSection == ReadOneOf(CommentSectionLines, MaxLinesComments)

ReadCommentData == ReadOneOf(CommentDataLines, MaxLinesComments)

NextComments ==
    \/ ReadTitle(MaxLinesComments)
    \/ OpenCommentSection
    \/ ReadCommentData
    \/ EndOfStream

SpecComments == Init /\ [][NextComments]_vars

(***************************************************************************)
(* C15  Comment stripping.                                                 *)
(***************************************************************************)
\* the step processed a line without keyword while the block was open
DataStepIn(block) ==
    /\ BodyLineStep
    /\ m_current_line'.kw = KEYWORD_INVALID
    /\ m_current_block = block

\* the step left the records and the messages which the line without its
\* trailing comment leaves
SameAsWithoutComment ==
    \E line_out \in _TrimTrailingComments(m_current_line'.raw) :
        LET plain == ProcessRawLine(State, RawLine(line_out))
        IN  /\ modules' = plain.modules
            /\ console' = plain.console

\* C15: a data line with a trailing `; comment` or `//comment` yields the
\* same record and the same diagnostics as the same line without the
\* comment, while a line of the free-text section help which holds '/' in a
\* path is kept whole.
C15_CommentStripping ==
    [][/\ DataStepIn("beams") => SameAsWithoutComment
       /\ DataStepIn("help") =>
              modules'[m_current_module].help =
                  Append(modules[m_current_module].help,
                         [material |-> m_current_line'.raw])]_vars

(***************************************************************************)
(* Documents about diagnostics: sections beams, cab and texcoords, the     *)
(* submesh directive, end_section in the root module, data lines with too  *)
(* few tokens and with an invalid option, and a stream which fails.        *)
(***************************************************************************)
FaultKeywordLines ==
    { KeywordLine("beams", <<>>), KeywordLine("cab", <<>>),
      KeywordLine("texcoords", <<>>), KeywordLine("submesh", <<>>), EndSection }

FaultDataLines == { DataLine(<< <<"1">> >>), StagedDataLine }

ReadFaultKeyword == ReadOneOf(FaultKeywordLines, MaxLinesFaults)

ReadFaultData == ReadOneOf(FaultDataLines, MaxLinesFaults)

NextFaults ==
    \/ ReadTitle(MaxLinesFaults)
    \/ ReadFaultKeyword
    \/ ReadFaultData
    \/ ReadFailure
    \/ EndOfStream

SpecFaults == Init /\ [][NextFaults]_vars

(***************************************************************************)
(* C16  Fault tolerance.                                                   *)
(***************************************************************************)
\* the step handed one line to ProcessRawLine
LineStep == stream = "open" /\ m_current_line_number' = m_current_line_number + 1

\* the step is the read failure of the stream
ReadFailureStep == stream = "open" /\ stream' = "read_failed"

\* C16: each line is processed to completion and the parser goes on to the
\* next line, whatever diagnostics the line logs; line processing stops only
\* at the end of the stream or on a read failure of the stream, and the
\* records parsed before a read failure are kept.
C16_FaultTolerance ==
    [][/\ LineStep => stream' = "open"
       /\ stream' /= stream => (FinalizeStep \/ ReadFailureStep)
       /\ ReadFailureStep =>
              /\ modules' = modules
              /\ m_definition' = m_definition
              /\ m_current_submesh' = m_current_submesh
              /\ m_current_camera_rail' = m_current_camera_rail]_vars

(***************************************************************************)
(* Documents about the name: any line may come first, a blank line, a      *)
(* comment line, a line of text, a keyword line or a directive.            *)
(***************************************************************************)
SkippedLines == { RawLine(<<" ">>), RawLine(<<";", "c">>), RawLine(<<"/", "/", "c">>) }

NameTextLines ==
    { TitleLine, BeamLine, KeywordLine("beams", <<>>), KeywordLine("submesh", <<>>),
      SectionAlpha, KeywordLine("set_node_defaults", << <<"2">> >>),
      KeywordLine("rollon", <<>>) }

ReadSkippedLine == \E line \in SkippedLines : ReadLine(line, MaxLinesName)

ReadNameOrBodyLine == \E line \in NameTextLines : ReadLine(line, MaxLinesName)

NextName ==
    \/ ReadSkippedLine
    \/ ReadNameOrBodyLine
    \/ EndOfStream

SpecName == Init /\ [][NextName]_vars

(***************************************************************************)
(* C17  Document name.                                                     *)
(***************************************************************************)
\* the step changed nothing but the name of the document
OnlyNameSet ==
    /\ m_definition' = [m_definition EXCEPT !.name = <<m_current_line'>>]
    /\ DefaultsUnchanged
    /\ modules' = modules
    /\ m_current_module' = m_current_module
    /\ m_current_block' = m_current_block
    /\ m_current_submesh' = m_current_submesh
    /\ m_current_camera_rail' = m_current_camera_rail
    /\ m_any_named_node_defined' = m_any_named_node_defined
    /\ m_sequential_importer' = m_sequential_importer
    /\ console' = console
    /\ m_args' = m_args
    /\ m_num_args' = m_num_args

\* the step skipped its line: a blank line or a comment line
LineSkipped ==
    /\ m_current_line' = m_current_line
    /\ m_definition' = m_definition
    /\ ParserStateUnchanged
    /\ console' = console

\* C17: the name is set by the first line that is neither blank nor a
\* comment, whatever its content, also a keyword line; that line has no other
\* effect (no block opened, no record, no directive applied); no later line
\* changes the name.
C17_DocumentName ==
    [][/\ (LineStep /\ m_definition.name = <<>>) =>
              \/ LineSkipped
              \/ /\ m_current_line'.text = "text"
                 /\ OnlyNameSet
       /\ m_definition.name /= <<>> => m_definition'.name = m_definition.name]_vars

\* a blank or comment line, then the line `beams`: it is the name, and no
\* beams section is open
C17_Witness ==
    /\ m_definition.name = <<KeywordLine("beams", <<>>)>>
    /\ m_current_line = KeywordLine("beams", <<>>)
    /\ m_current_block = KEYWORD_INVALID
    /\ m_current_line_number = 3

(***************************************************************************)
(* C18  Append-only modules.                                               *)
(***************************************************************************)
\* the records of kind c which module m held before the step; none when the
\* step made the module
RecordsBefore(m, c) == IF m \in DOMAIN modules THEN modules[m][c] ELSE <<>>

\* a step appends at most one record to one kind, and only in the module
\* which was current when the line came
GrowsOnlyInCurrentModule ==
    \A m \in DOMAIN modules' : \A c \in Collections :
        Len(modules'[m][c]) > Len(RecordsBefore(m, c)) =>
            /\ m = m_current_module
            /\ Len(modules'[m][c]) = Len(RecordsBefore(m, c)) + 1

\* the beams of every module are in the order of their lines
BeamsInLineOrder(mods) ==
    \A m \in DOMAIN mods : \A i, j \in DOMAIN mods[m].beams :
        i < j => mods[m].beams[i].nodes[1].line_number
                     < mods[m].beams[j].nodes[1].line_number

\* C18: within each module and record kind the record sequence only grows by
\* appending at its end; no line removes or reorders records; the records of
\* one kind are in the order of the lines that created them, each in the
\* module that was current at its line.
C18_AppendOnlyModules ==
    [][/\ RecordsKept
       /\ GrowsOnlyInCurrentModule
       /\ BeamsInLineOrder(modules')]_vars

\* section alpha, beams, two beam lines, end_section: alpha holds the two
\* beams in the order of their lines, the root module none
C18_Witness ==
    /\ m_current_line = EndSection
    /\ m_current_module = m_root_module
    /\ Len(modules) = 2
    /\ Len(modules[2].beams) = 2
    /\ modules[2].beams[1].nodes[1].line_number = 4
    /\ modules[2].beams[2].nodes[1].line_number = 5
    /\ modules[m_root_module].beams = <<>>

(***************************************************************************)
(* Documents about the sequential importer: a section of nodes, numbered   *)
(* or named, with two node lines, then a wheels section with one wheel     *)
(* line or a beams section with one beam line, then a beams section with   *)
(* one beam line.  The lines which may stand at each place of the document *)
(* are given by the number of the line.                                    *)
(***************************************************************************)
NodeLine(id) == DataLine(<< id, <<"0">>, <<"0">>, <<"0">> >>)

\* a wheel between the nodes 0 and 1, with num_rays rays and no rigidity node
WheelLine(num_rays) ==
    DataLine(<< <<"1">>, <<"1">>, num_rays, <<"0">>, <<"1">>, <<"9", "9", "9", "9">>,
                <<"1">>, <<"1">>, <<"0">>, <<"5">>, <<"6">>, <<"7">>,
                <<"face">>, <<"band">> >>)

\* the wheel line without its last token
ShortWheelLine ==
    DataLine(<< <<"1">>, <<"1">>, <<"4">>, <<"0">>, <<"1">>, <<"9", "9", "9", "9">>,
                <<"1">>, <<"1">>, <<"0">>, <<"5">>, <<"6">>, <<"7">>, <<"face">> >>)

NumericBeamLine == DataLine(<< <<"1">>, <<"2">> >>)

NamedBeamLine == DataLine(<< <<"a", "1">>, <<"a", "2">> >>)

ImporterDocumentLines(line_number) ==
    CASE line_number = 2 -> {KeywordLine("nodes", <<>>), KeywordLine("nodes2", <<>>)}
      [] line_number = 3 -> {NodeLine(<<"0">>), NodeLine(<<"a", "1">>)}
      [] line_number = 4 -> {NodeLine(<<"1">>), NodeLine(<<"a", "2">>)}
      [] line_number = 5 -> {KeywordLine("wheels", <<>>), KeywordLine("beams", <<>>)}
      [] line_number = 6 -> {WheelLine(<<"4">>), ShortWheelLine,
                             NumericBeamLine, NamedBeamLine}
      [] line_number = 7 -> {KeywordLine("beams", <<>>)}
      [] OTHER -> {NumericBeamLine, NamedBeamLine}

ReadImporterLine ==
    ReadOneOf(ImporterDocumentLines(m_current_line_number), MaxLinesImporter)

NextImporter ==
    \/ ReadTitle(MaxLinesImporter)
    \/ ReadImporterLine
    \/ EndOfStream

SpecImporter == Init /\ [][NextImporter]_vars

(***************************************************************************)
(* C19  Named-only documents.                                              *)
(***************************************************************************)
\* the document declared named nodes only: no numbered node and no request
\* of a wheel-like or cinecam section was registered
NamedOnlyDocument ==
    \A i \in DOMAIN m_sequential_importer.all_nodes :
        m_sequential_importer.all_nodes[i].kind = "named"

\* the node references held by the beams of the modules mods
BeamNodeRefs(mods) ==
    UNION { { mods[m].beams[i].nodes[k] : k \in 1..2 }
            : <<m, i>> \in { <<m, i>> \in (DOMAIN mods) \X (1..MaxLinesImporter + 1) :
                                 i \in DOMAIN mods[m].beams } }

\* the nodes of the modules mods which were declared under the name str
DeclaredAs(mods, str) ==
    { <<m, i>> \in (DOMAIN mods) \X (1..MaxLinesImporter + 1) :
          i \in DOMAIN mods[m].nodes /\ mods[m].nodes[i].id.str = str }

\* C19: in a document that declares only named nodes and has no wheel-like
\* or cinecam section, every node token resolves to a name-based reference;
\* a node declared `a1` and a later reference `a1` resolve to the same
\* identity (the reference names exactly the declared node); the finalize
\* pass of the sequential importer rewrites no reference.
C19_NamedOnlyDocuments ==
    [][(FinalizeStep /\ NamedOnlyDocument) =>
          /\ \A m \in DOMAIN modules :
                 /\ modules'[m].beams = modules[m].beams
                 /\ modules'[m].nodes = modules[m].nodes
          /\ \A ref \in BeamNodeRefs(modules') :
                 /\ {"REGULAR_STATE_IS_VALID", "REGULAR_STATE_IS_NAMED"} \subseteq ref.flags
                 /\ ref.id_str /= <<>>
                 /\ Cardinality(DeclaredAs(modules', ref.id_str)) <= 1]_vars

\* nodes2 with a1 and a2, beams with the line `a1 a2`: after Finalize the
\* beam still names a1, the node declared first, and no final index exists
C19_Witness ==
    /\ stream = "finalized"
    /\ m_sequential_importer.processed
    /\ m_sequential_importer.final_nodes = <<>>
    /\ Len(m_sequential_importer.all_nodes) = 2
    /\ Len(modules[m_root_module].nodes) = 2
    /\ modules[m_root_module].nodes[1].id.str = <<"a", "1">>
    /\ Len(modules[m_root_module].beams) = 2
    /\ modules[m_root_module].beams[2].nodes[1].id_str = <<"a", "1">>
    /\ "REGULAR_STATE_IS_NAMED" \in modules[m_root_module].beams[2].nodes[1].flags

(***************************************************************************)
(* C20  Sequential synthesis.                                              *)
(***************************************************************************)
\* the implicit nodes the wheel records ask for: twice the rays of each
RECURSIVE ImplicitNodesOf(_)
ImplicitNodesOf(wheels) ==
    IF wheels = <<>> THEN 0
    ELSE 2 * Head(wheels).num_rays + ImplicitNodesOf(Tail(wheels))

\* the document is a legacy one: it holds a numbered node or a wheel
LegacyDocument ==
    \/ \E i \in DOMAIN modules[m_root_module].nodes :
           modules[m_root_module].nodes[i].id.str = <<>>
    \/ modules[m_root_module].wheels /= <<>>

\* the final index of the first node after the explicit ones
FirstImplicitIndex == Len(modules[m_root_module].nodes)

\* C20: in a legacy document (nodes 0 and 1, then a wheel line with num_rays
\* = 4) finalize adds exactly 2 * num_rays implicit nodes, placed after the
\* explicit nodes in final index order; a later explicit numeric reference
\* to the index after the last explicit node (`2`) resolves to the first
\* implicit node, and that index belongs to no other node.
C20_SequentialSynthesis ==
    [][(FinalizeStep /\ LegacyDocument) =>
          LET final == m_sequential_importer'.final_nodes
              root  == modules[m_root_module]
          IN  /\ Len(final) = Len(root.nodes) + ImplicitNodesOf(root.wheels)
              /\ \A k \in DOMAIN final :
                     IF k <= Len(root.nodes)
                     THEN final[k].kind \in {"numbered", "named"}
                     ELSE final[k].kind = "wheel_node"
              /\ \A i \in DOMAIN root.beams : \A k \in 1..2 :
                     (/\ root.wheels /= <<>>
                      /\ root.wheels[1].num_rays > 0
                      /\ root.beams[i].nodes[k].id_num = FirstImplicitIndex
                      /\ "IMPORT_STATE_MUST_CHECK_NAMED_FIRST"
                             \notin root.beams[i].nodes[k].flags) =>
                         LET ref == modules'[m_root_module].beams[i].nodes[k]
                         IN  /\ ref.flags = {"REGULAR_STATE_IS_VALID",
                                             "REGULAR_STATE_IS_NUMBERED"}
                             /\ ref.id_num = FirstImplicitIndex
                             /\ final[ref.id_num + 1].kind = "wheel_node"
                             /\ final[ref.id_num + 1].ray_node = 1
                             /\ \A j \in DOMAIN final :
                                    j /= ref.id_num + 1 => final[j] /= final[ref.id_num + 1]]_vars

\* nodes 0 and 1, a wheel with four rays, the beam line `1 2`: ten final
\* nodes, the eight implicit ones after node 1, and the reference 2 is the
\* first of them
C20_Witness ==
    /\ stream = "finalized"
    /\ Len(m_sequential_importer.final_nodes) = 10
    /\ m_sequential_importer.final_nodes[1] = [kind |-> "numbered", num |-> 0]
    /\ m_sequential_importer.final_nodes[2] = [kind |-> "numbered", num |-> 1]
    /\ m_sequential_importer.final_nodes[3].kind = "wheel_node"
    /\ Len(modules[m_root_module].wheels) = 1
    /\ modules[m_root_module].wheels[1].num_rays = 4
    /\ Len(modules[m_root_module].beams) = 1
    /\ modules[m_root_module].beams[1].nodes[2].id_num = 2
    /\ modules[m_root_module].beams[1].nodes[2].flags
           = {"REGULAR_STATE_IS_VALID", "REGULAR_STATE_IS_NUMBERED"}

(***************************************************************************)
(* Documents about the registrations of the importer: the sections which   *)
(* declare nodes or make implicit nodes, each with a line that passes the  *)
(* argument-count gate and the same line without its last token.           *)
(***************************************************************************)
\* a wheels2 line with 3 rays
Wheel2Line ==
    DataLine(<< <<"1">>, <<"1">>, <<"1">>, <<"3">>, <<"0">>, <<"1">>,
                <<"9", "9", "9", "9">>, <<"1">>, <<"1">>, <<"0">>, <<"5">>,
                <<"6">>, <<"7">>, <<"8">>, <<"9">>, <<"face">>, <<"band">> >>)

\* a meshwheels or meshwheels2 line with 5 rays
MeshWheelLine ==
    DataLine(<< <<"1">>, <<"1">>, <<"1">>, <<"5">>, <<"0">>, <<"1">>,
                <<"9", "9", "9", "9">>, <<"1">>, <<"1">>, <<"0">>, <<"5">>,
                <<"6">>, <<"7">>, <<"r">>, <<"mesh">>, <<"material">> >>)

\* a flexbodywheels line with 2 rays and a rigidity node
FlexBodyWheelLine ==
    DataLine(<< <<"1">>, <<"1">>, <<"1">>, <<"2">>, <<"0">>, <<"1">>,
                <<"1">>, <<"1">>, <<"1">>, <<"0">>, <<"5">>,
                <<"6">>, <<"7">>, <<"8">>, <<"9">>, <<"l">> >>)

CinecamLine ==
    DataLine(<< <<"0">>, <<"0">>, <<"0">>, <<"0">>, <<"1">>, <<"0">>, <<"1">>,
                <<"0">>, <<"1">>, <<"0">>, <<"1">> >>)

WithoutLastToken(line) == DataLine(SubSeq(line.toks, 1, Len(line.toks) - 1))

\* the full line of each section of the scenario
RegistrationLine ==
    [b \in {"nodes", "nodes2", "wheels", "wheels2", "meshwheels", "meshwheels2",
            "flexbodywheels", "cinecam"} |->
        CASE b = "nodes" -> NodeLine(<<"7">>)
          [] b = "nodes2" -> NodeLine(<<"a", "1">>)
          [] b = "wheels" -> WheelLine(<<"4">>)
          [] b = "wheels2" -> Wheel2Line
          [] b \in {"meshwheels", "meshwheels2"} -> MeshWheelLine
          [] b = "flexbodywheels" -> FlexBodyWheelLine
          [] b = "cinecam" -> CinecamLine]

OpenRegistrationSection ==
    ReadOneOf({KeywordLine(b, <<>>) : b \in DOMAIN RegistrationLine}, MaxLinesRegistration)

ReadRegistrationData ==
    /\ m_current_block \in DOMAIN RegistrationLine
    /\ ReadOneOf({RegistrationLine[m_current_block],
                  WithoutLastToken(RegistrationLine[m_current_block])},
                 MaxLinesRegistration)

NextRegistration ==
    \/ ReadTitle(MaxLinesRegistration)
    \/ OpenRegistrationSection
    \/ ReadRegistrationData
    \/ EndOfStream

SpecRegistration == Init /\ [][NextRegistration]_vars

(***************************************************************************)
(* C21  Importer registration order.                                       *)
(***************************************************************************)
\* the step sent a line without keyword to the parser of a section which
\* registers with the importer
RegisteringStep ==
    /\ BodyLineStep
    /\ m_current_line'.kw = KEYWORD_INVALID
    /\ m_current_block \in DOMAIN RegistrationLine

\* the argument-count gate refused the line of this step
RejectedByGate ==
    /\ Len(console') = Len(console) + 1
    /\ console'[Len(console')].msg = "Not enough arguments"

\* the registration the line of this step stands for: index is the position,
\* from 0, of num_rays in the lines of the section
RegistrationOf(block, line) ==
    CASE block = "nodes" ->
             [kind |-> "numbered", num |-> UintCast(StrToL(line.toks[1]).res)]
      [] block = "nodes2" -> [kind |-> "named", name |-> line.toks[1]]
      [] block = "cinecam" -> [kind |-> "generated", keyword |-> "cinecam"]
      [] OTHER ->
             [kind |-> "wheel", keyword |-> block,
              num_rays |-> StrToL(line.toks[IF block = "wheels" THEN 3 ELSE 4]).res]

\* the registration carries what the line stands for
Carries(entry, expected) ==
    \A f \in DOMAIN expected : f \in DOMAIN entry /\ entry[f] = expected[f]

\* C21: a line of nodes, nodes2, wheels, wheels2, meshwheels, meshwheels2,
\* flexbodywheels or cinecam which passes the argument-count gate appends
\* exactly one registration to the importer's list, of the kind of its
\* section and carrying the line's node id or num_rays; a line the gate
\* rejects, and every other line, leaves the list as it is.  So the list
\* holds the registrations in the order of the lines.
C21_RegistrationOrder ==
    [][LineStep =>
          IF RegisteringStep /\ ~RejectedByGate
          THEN /\ Len(m_sequential_importer'.all_nodes)
                    = Len(m_sequential_importer.all_nodes) + 1
               /\ IsPrefix(m_sequential_importer.all_nodes,
                           m_sequential_importer'.all_nodes)
               /\ Carries(m_sequential_importer'.all_nodes[
                              Len(m_sequential_importer'.all_nodes)],
                          RegistrationOf(m_current_block, m_current_line'))
          ELSE m_sequential_importer'.all_nodes = m_sequential_importer.all_nodes]_vars

\* a numbered node, then the 5 rays of a meshwheels2 line, then a line of
\* that section which the gate rejected
C21_Witness ==
    /\ Len(m_sequential_importer.all_nodes) = 2
    /\ m_sequential_importer.all_nodes[1] = [kind |-> "numbered", num |-> 7]
    /\ m_sequential_importer.all_nodes[2].kind = "wheel"
    /\ m_sequential_importer.all_nodes[2].keyword = "meshwheels2"
    /\ m_sequential_importer.all_nodes[2].num_rays = 5
    /\ m_current_block = "meshwheels2"
    /\ m_current_line = WithoutLastToken(MeshWheelLine)
    /\ stream = "open"

(***************************************************************************)
(* Documents about node references: sections of nodes, numbered or named,  *)
(* a flexbodies section whose line names three nodes, and forset lines.    *)
(***************************************************************************)
\* a flexbody on the nodes 0, -1 and a1
FlexbodyLine ==
    DataLine(<< <<"0">>, Neg1, <<"a", "1">>, <<"0">>, <<"0">>, <<"0">>,
                <<"0">>, <<"0">>, <<"0">>, <<"mesh">> >>)

\* a forset line: the keyword, then chars
ForsetLine(chars) ==
    [text |-> "text", kw |-> "forset",
     toks |-> SplitTokens(<<"forset">> \o chars, <<>>, <<>>),
     raw |-> <<"forset">> \o chars]

NodeRefSectionLines ==
    {KeywordLine("nodes", <<>>), KeywordLine("nodes2", <<>>),
     KeywordLine("flexbodies", <<>>)}

NodeRefDataLines ==
    [b \in {"nodes", "nodes2", "flexbodies"} |->
        CASE b = "nodes" -> NodeLine(<<"7">>)
          [] b = "nodes2" -> NodeLine(<<"a", "1">>)
          [] b = "flexbodies" -> FlexbodyLine]

OpenNodeRefSection == ReadOneOf(NodeRefSectionLines, MaxLinesNodeRefs)

ReadNodeRefData ==
    /\ m_current_block \in DOMAIN NodeRefDataLines
    /\ ReadOneOf({NodeRefDataLines[m_current_block]}, MaxLinesNodeRefs)

ReadForset ==
    ReadOneOf({ForsetLine(<<" ", "1", ",", "2", "-", "3">>)}, MaxLinesNodeRefs)

NextNodeRefs ==
    \/ ReadTitle(MaxLinesNodeRefs)
    \/ OpenNodeRefSection
    \/ ReadNodeRefData
    \/ ReadForset
    \/ EndOfStream

SpecNodeRefs == Init /\ [][NextNodeRefs]_vars

(***************************************************************************)
(* C22  Dual interpretation of node tokens.                                *)
(***************************************************************************)
Elems(seq) == {seq[i] : i \in DOMAIN seq}

\* the node references the record parsers stored in module m; a rigidity
\* node without flags stands for "no node" and is no decoded reference
ParsedNodeRefsOf(m) ==
    UNION { Elems(r.nodes) :
              r \in Elems(m.beams) \cup Elems(m.hydros) \cup Elems(m.camerarail)
                    \cup Elems(m.cinecam) \cup Elems(m.wheels) \cup Elems(m.wheels_2)
                    \cup Elems(m.mesh_wheels) \cup Elems(m.flexbodywheels) }
    \cup UNION { {r.reference_arm_node} \cup
                 (IF r.rigidity_node.flags = {} THEN {} ELSE {r.rigidity_node}) :
                   r \in Elems(m.wheels) \cup Elems(m.wheels_2)
                         \cup Elems(m.mesh_wheels) \cup Elems(m.flexbodywheels) }
    \cup UNION { {r.reference_node, r.x_axis_node, r.y_axis_node} :
                   r \in Elems(m.flexbodies) }

ParsedNodeRefs(mods) == UNION { ParsedNodeRefsOf(mods[m]) : m \in DOMAIN mods }

\* the node references of the forset items stored in the modules
ForsetNodeRefs(mods) ==
    UNION { UNION { UNION { {range.start, range.end} :
                              range \in Elems(r.node_list_to_import) } :
                      r \in Elems(mods[m].flexbodies) } :
              m \in DOMAIN mods }

\* a nodes2 record was parsed before this step
NamedNodeParsedEarlier ==
    \E m \in DOMAIN modules : \E i \in DOMAIN modules[m].nodes :
        modules[m].nodes[i].id.str /= <<>>

AbsoluteValue(n) == IF n < 0 THEN 0 - n ELSE n

\* ref holds both interpretations of a token of the line of this step
DualInterpretation(ref) ==
    /\ \E k \in DOMAIN m_current_line'.toks : m_current_line'.toks[k] = ref.id_str
    /\ ref.id_num = AbsoluteValue(PARSEINT(ref.id_str))
    /\ {"IMPORT_STATE_IS_VALID", "REGULAR_STATE_IS_VALID"} \subseteq ref.flags
    /\ ("IMPORT_STATE_MUST_CHECK_NAMED_FIRST" \in ref.flags) <=> NamedNodeParsedEarlier

\* C22 as stated: every node reference a line adds to the records, those of
\* the forset items included, stores the token text as its name and the
\* absolute value of its integer value as its legacy index, with the
\* import-state and the regular-state validity flags set, and with the
\* 'check named first' flag exactly when a nodes2 record was parsed earlier.
C22_AsStated ==
    [][LineStep =>
          \A ref \in (ParsedNodeRefs(modules') \cup ForsetNodeRefs(modules'))
                       \ (ParsedNodeRefs(modules) \cup ForsetNodeRefs(modules)) :
              DualInterpretation(ref)]_vars

\* C22, amended: every node reference decoded by _ParseNodeRef for a record
\* stores the token text as its name and the absolute value of its integer
\* value as its legacy index, with the import-state and the regular-state
\* validity flags set, and with the 'check named first' flag exactly when a
\* nodes2 record was parsed earlier in the document; the references of the
\* items of a forset line carry the import-state validity flag alone.
C22_DualInterpretation ==
    [][LineStep =>
          /\ \A ref \in ParsedNodeRefs(modules') \ ParsedNodeRefs(modules) :
                 DualInterpretation(ref)
          /\ \A ref \in ForsetNodeRefs(modules') \ ForsetNodeRefs(modules) :
                 ref.flags = {"IMPORT_STATE_IS_VALID"}]_vars

\* a flexbody parsed after a nodes2 record: its token -1 is kept as the name
\* "-1" and the index 1, to be checked by name first; the flexbody holds the
\* two ranges of a forset line
C22_Witness ==
    \E m \in DOMAIN modules : \E i \in DOMAIN modules[m].flexbodies :
        /\ modules[m].flexbodies[i].x_axis_node.id_str = Neg1
        /\ modules[m].flexbodies[i].x_axis_node.id_num = 1
        /\ "IMPORT_STATE_MUST_CHECK_NAMED_FIRST"
               \in modules[m].flexbodies[i].x_axis_node.flags
        /\ Len(modules[m].flexbodies[i].node_list_to_import) = 2
        /\ stream = "open"

(***************************************************************************)
(* Lines which end with an options token, one section at a time.           *)
(***************************************************************************)
MaxLinesOptions == 4

\* the tokens before the options token in a line of each section
OptionsLinePrefix ==
    [b \in {"nodes", "nodes2", "beams", "cab", "shocks", "triggers", "ties",
            "commands", "commands2", "hydros"} |->
        CASE b = "nodes"     -> << <<"7">>, <<"0">>, <<"0">>, <<"0">> >>
          [] b = "nodes2"    -> << <<"a", "1">>, <<"0">>, <<"0">>, <<"0">> >>
          [] b = "beams"     -> << <<"1">>, <<"2">> >>
          [] b = "cab"       -> << <<"1">>, <<"2">>, <<"3">> >>
          [] b = "shocks"    -> << <<"1">>, <<"2">>, <<"1">>, <<"1">>, <<"1">>, <<"1">>,
                                   <<"1">> >>
          [] b = "triggers"  -> << <<"1">>, <<"2">>, <<"1">>, <<"1">>, <<"1">>, <<"1">> >>
          [] b = "ties"      -> << <<"1">>, <<"1">>, <<"1">>, <<"1">>, <<"1">> >>
          [] b = "commands"  -> << <<"1">>, <<"2">>, <<"1">>, <<"1">>, <<"1">>, <<"1">>,
                                   <<"1">> >>
          [] b = "commands2" -> << <<"1">>, <<"2">>, <<"1">>, <<"1">>, <<"1">>, <<"1">>,
                                   <<"1">>, <<"1">> >>
          [] b = "hydros"    -> << <<"1">>, <<"2">>, <<"1">> >>]

\* the options tokens of the scenario: one or two characters
OptionChars == {"i", "c", "q"}

OptionTokens ==
    {<<c>> : c \in OptionChars} \cup {<<c, d>> : c \in OptionChars, d \in OptionChars}

OptionsLine(block, tok) == DataLine(Append(OptionsLinePrefix[block], tok))

OpenOptionsSection ==
    ReadOneOf({KeywordLine(b, <<>>) : b \in DOMAIN OptionsLinePrefix \cup {"submesh"}},
              MaxLinesOptions)

ReadOptionsData ==
    /\ m_current_block \in DOMAIN OptionsLinePrefix
    /\ ReadOneOf({OptionsLine(m_current_block, tok) : tok \in OptionTokens}
                   \cup {DataLine(OptionsLinePrefix[m_current_block])},
                 MaxLinesOptions)

NextOptions ==
    \/ ReadTitle(MaxLinesOptions)
    \/ OpenOptionsSection
    \/ ReadOptionsData
    \/ EndOfStream

SpecOptions == Init /\ [][NextOptions]_vars

(***************************************************************************)
(* C23  Option-string decoding.                                            *)
(***************************************************************************)
\* the characters the decoder of each section names; ParseHydros names none
LegalOptions ==
    [b \in DOMAIN OptionsLinePrefix |->
        CASE b \in {"nodes", "nodes2"} -> NodeOptionBits
          [] b = "beams" -> {"v", "i", "r", "s"}
          [] b = "cab" -> {"c", "b", "D", "p", "u", "F", "S", "n"}
          [] b = "shocks" -> {"n", "v", "i", "m", "r", "R", "l", "L"}
          [] b = "triggers" -> TriggerOptionBits
          [] b = "ties" -> {"n", "v", "i", "s"}
          [] b \in {"commands", "commands2"} -> {"n", "i", "r", "f", "c", "p", "o"}
          [] b = "hydros" -> {}]

InvalidOptionWarnings ==
    {"invalid option", "ignoring invalid option", "ignoring unknown flag"}

\* the step sent a line which ends with an options token to the parser of
\* its section, and the parser stored a record
OptionsStep ==
    /\ BodyLineStep
    /\ m_current_line'.kw = KEYWORD_INVALID
    /\ m_current_block \in DOMAIN OptionsLinePrefix
    /\ Len(m_current_line'.toks) = Len(OptionsLinePrefix[m_current_block]) + 1
    /\ m_current_block = "cab" => m_current_submesh /= <<>>

\* the options of the record stored last by the parser of the section, in
\* state s
StoredOptions(s, block) ==
    CASE block = "cab" ->
             s.m_current_submesh[1].cab_triangles[
                 Len(s.m_current_submesh[1].cab_triangles)].options
      [] block \in {"nodes", "nodes2"} ->
             s.modules[s.m_current_module].nodes[
                 Len(s.modules[s.m_current_module].nodes)].options
      [] block \in {"commands", "commands2"} ->
             s.modules[s.m_current_module].commands2[
                 Len(s.modules[s.m_current_module].commands2)].options
      [] block = "ties" ->
             <<s.modules[s.m_current_module].ties[
                   Len(s.modules[s.m_current_module].ties)].is_invisible,
               s.modules[s.m_current_module].ties[
                   Len(s.modules[s.m_current_module].ties)].disable_self_lock>>
      [] OTHER ->
             s.modules[s.m_current_module][block][
                 Len(s.modules[s.m_current_module][block])].options

\* the line with the characters outside the legal set taken out of its last
\* token; a token left empty is no token
LegalOnly(block, toks) ==
    IF SelectSeq(toks[Len(toks)], LAMBDA c : c \in LegalOptions[block]) = <<>>
    THEN DataLine(SubSeq(toks, 1, Len(toks) - 1))
    ELSE DataLine([toks EXCEPT ![Len(toks)] =
                      SelectSeq(@, LAMBDA c : c \in LegalOptions[block])])

\* the number of characters of the token outside the legal set
IllegalCount(block, tok) ==
    Cardinality({i \in DOMAIN tok : tok[i] \notin LegalOptions[block]})

\* the number of warnings about an option character which the step added
NewOptionWarnings ==
    Cardinality({i \in DOMAIN console' :
                    i > Len(console) /\ console'[i].msg \in InvalidOptionWarnings})

\* what the claim says of a step in a decoding section: decoding the line
\* again gives the options stored; they are the options of the line without
\* its illegal characters; one warning for each illegal character
DecodedOnce(block) ==
    /\ StoredOptions(ProcessRawLine(State', m_current_line'), block)
           = StoredOptions(State', block)
    /\ StoredOptions(ProcessRawLine(State, LegalOnly(block, m_current_line'.toks)), block)
           = StoredOptions(State', block)
    /\ NewOptionWarnings
           = IllegalCount(block, m_current_line'.toks[Len(m_current_line'.toks)])

\* C23 as stated: in every section which takes an options token, hydros
\* included, the same token decodes to the same bitmask, a character outside
\* the legal set sets no bit and produces exactly one warning
C23_AsStated ==
    [][OptionsStep => DecodedOnce(m_current_block)]_vars

\* C23: in nodes, nodes2, beams, cab, shocks, triggers, ties, commands and
\* commands2 the same options token decodes to the same bitmask, a character
\* outside the section's legal set sets no bit and produces exactly one
\* warning; hydros stores the token as text, undecoded, with no warning
C23_OptionDecoding ==
    [][OptionsStep =>
          IF m_current_block = "hydros"
          THEN /\ StoredOptions(State', "hydros")
                      = m_current_line'.toks[Len(m_current_line'.toks)]
               /\ console' = console
          ELSE DecodedOnce(m_current_block)]_vars

\* a shock stored from the token "qi": bit i, one warning for q
C23_Witness ==
    /\ m_current_block = "shocks"
    /\ m_current_line = OptionsLine("shocks", <<"q", "i">>)
    /\ Len(modules[m_current_module].shocks) = 1
    /\ modules[m_current_module].shocks[1].options = {"i"}
    /\ Len(console) = 1
    /\ console[1].msg = "ignoring invalid option"
    /\ stream = "open"

(***************************************************************************)
(* Integer arguments: a line of triggers, whose fifth token GetArgInt      *)
(* decodes, and the directive antilockbrakes, whose second value           *)
(* ParseArgInt decodes.                                                    *)
(***************************************************************************)
MaxLinesIntegers == 4

\* a line which opens with a keyword and keeps its characters as they are
DirectiveLine(kw, chars) ==
    [text |-> "text", kw |-> kw,
     toks |-> SplitTokens(<<kw, " ">> \o chars, <<>>, <<>>),
     raw |-> <<kw, " ">> \o chars]

\* the integer tokens of the scenario: what they are and the number they
\* start with
IntegerCases ==
    { [tok |-> <<"5">>, kind |-> "number", leading |-> 5],
      [tok |-> <<"-", "3">>, kind |-> "number", leading |-> 0 - 3],
      [tok |-> <<"x">>, kind |-> "not_a_number", leading |-> 0],
      [tok |-> <<"5", "x">>, kind |-> "trailing_garbage", leading |-> 5] }

TriggerIntLine(tok) ==
    DataLine(<< <<"1">>, <<"2">>, <<"1">>, <<"1">>, tok, <<"1">> >>)

AntiLockBrakesIntLine(tok) == DirectiveLine("antilockbrakes", <<"1", ",">> \o tok)

OpenTriggers == ReadOneOf({KeywordLine("triggers", <<>>)}, MaxLinesIntegers)

ReadTriggerInteger ==
    /\ m_current_block = "triggers"
    /\ ReadOneOf({TriggerIntLine(c.tok) : c \in IntegerCases}, MaxLinesIntegers)

ReadAntiLockBrakesInteger ==
    ReadOneOf({AntiLockBrakesIntLine(c.tok) : c \in IntegerCases}, MaxLinesIntegers)

NextIntegers ==
    \/ ReadTitle(MaxLinesIntegers)
    \/ OpenTriggers
    \/ ReadTriggerInteger
    \/ ReadAntiLockBrakesInteger
    \/ EndOfStream

SpecIntegers == Init /\ [][NextIntegers]_vars

(***************************************************************************)
(* C24  Integer decoding.                                                  *)
(***************************************************************************)
\* the step handed the trigger line of case c to ParseTriggers
IndexDecoderStep(c) ==
    /\ BodyLineStep
    /\ m_current_block = "triggers"
    /\ m_current_line' = TriggerIntLine(c.tok)

\* the step handed the antilockbrakes line of case c to ParseAntiLockBrakes
StringDecoderStep(c) ==
    /\ BodyLineStep
    /\ m_current_line' = AntiLockBrakesIntLine(c.tok)

\* the step stored one record more in the collection, with value v in field f
StoredWith(coll, f, v) ==
    /\ Len(modules'[m_current_module][coll]) = Len(modules[m_current_module][coll]) + 1
    /\ modules'[m_current_module][coll][Len(modules'[m_current_module][coll])][f] = v

\* the step logged exactly one message, of this type and text
LoggedExactly(type, msg) ==
    /\ Len(console') = Len(console) + 1
    /\ console'[Len(console')].type = type
    /\ console'[Len(console')].msg = msg

MaxLinesModes == 2

\* the entries of the scenario, and whether each is a well-formed "mode:"
\* entry: the key mode, one ':' and the attributes
ModeEntries ==
    { [chars |-> <<"x">>, well_formed |-> FALSE],
      [chars |-> <<"m", "o", "d", "e">>, well_formed |-> FALSE],
      [chars |-> <<"m", "o", "d", "e", ":", "o", "f", "f", ":", "o", "n">>,
       well_formed |-> FALSE],
      [chars |-> <<":">>, well_formed |-> FALSE],
      [chars |-> <<"m", "o", "d", "e", ":", "o", "f", "f">>, well_formed |-> TRUE],
      [chars |-> <<" ", "M", "O", "D", "E", " ", ":", "n", "o", "d", "a", "s", "h", "&",
                   "n", "o", "t", "o", "g", "g", "l", "e">>,
       well_formed |-> TRUE] }

\* the attribute lists: up to two entries
ModeLists ==
    {<<>>} \cup {<<e>> : e \in ModeEntries}
           \cup {<<e, f>> : e \in ModeEntries, f \in ModeEntries}

\* the characters of a list: each entry after a comma
RECURSIVE ModeListChars(_)
ModeListChars(list) ==
    IF list = <<>> THEN <<>>
    ELSE <<",">> \o Head(list).chars \o ModeListChars(Tail(list))

\* the values before the attribute list: three for antilockbrakes, four for
\* tractioncontrol
ModeLine(kw, list) ==
    DirectiveLine(kw, (IF kw = "antilockbrakes"
                       THEN <<"1", ",", "1", ",", "1">>
                       ELSE <<"1", ",", "1", ",", "1", ",", "1">>) \o ModeListChars(list))

ReadModeDirective ==
    \E kw \in {"antilockbrakes", "tractioncontrol"} :
        ReadOneOf({ModeLine(kw, list) : list \in ModeLists}
                    \cup {DirectiveLine(kw, <<"1">>)},
                  MaxLinesModes)

NextModes ==
    \/ ReadTitle(MaxLinesModes)
    \/ ReadModeDirective
    \/ EndOfStream

SpecModes == Init /\ [][NextModes]_vars

(***************************************************************************)
(* C25  Missing mode key.                                                  *)
(***************************************************************************)
\* the step stored one record more in the collection of the directive, with
\* the three attributes at their defaults
StoredWithDefaultMode(kw) ==
    /\ Len(modules'[m_current_module][kw]) = Len(modules[m_current_module][kw]) + 1
    /\ ~modules'[m_current_module][kw][Len(modules'[m_current_module][kw])].attr_no_dashboard
    /\ ~modules'[m_current_module][kw][Len(modules'[m_current_module][kw])].attr_no_toggle
    /\ modules'[m_current_module][kw][Len(modules'[m_current_module][kw])].attr_is_on

\* C25 as stated: an antilockbrakes or tractioncontrol directive which passes
\* the argument-count gate and whose attribute list holds no well-formed
\* "mode:" entry stores its record with no_dashboard = false, no_toggle =
\* false and is_on = true, whatever the entries of the list and their order
C25_MissingMode ==
    [][\A kw \in {"antilockbrakes", "tractioncontrol"} : \A list \in ModeLists :
          ( /\ BodyLineStep
            /\ m_current_line' = ModeLine(kw, list)
            /\ \A i \in DOMAIN list : ~list[i].well_formed )
          => StoredWithDefaultMode(kw)]_vars

(***************************************************************************)
(* Optional trailing arguments of antilockbrakes and                       *)
(* set_beam_defaults_scale.                                                *)
(***************************************************************************)
MaxLinesOptionalArgs == 4

\* antilockbrakes with n comma-separated values: force, speed, pulse 7, and
\* an attribute entry
AntiLockBrakesValues(n) ==
    DirectiveLine("antilockbrakes",
                  SubSeq(<<"1", ",", "1", ",", "7", ",", "x">>, 1, 2 * n - 1))

\* set_beam_defaults_scale with n scale values, each 2
ScaleLine(n) == KeywordLine("set_beam_defaults_scale", [i \in 1..n |-> <<"2">>])

ReadAntiLockBrakesValues ==
    ReadOneOf({AntiLockBrakesValues(n) : n \in 1..4}, MaxLinesOptionalArgs)

ReadScale == ReadOneOf({ScaleLine(n) : n \in 1..4}, MaxLinesOptionalArgs)

NextOptionalArgs ==
    \/ ReadTitle(MaxLinesOptionalArgs)
    \/ ReadAntiLockBrakesValues
    \/ ReadScale
    \/ EndOfStream

SpecOptionalArgs == Init /\ [][NextOptionalArgs]_vars

(***************************************************************************)
(* C26  Optional trailing arguments.                                       *)
(***************************************************************************)
\* C26 as stated: antilockbrakes reads its third value, pulse_per_sec, as
\* soon as there are three comma-separated values, and
\* set_beam_defaults_scale is accepted with one to four scale values, of
\* which the first becomes the springiness scale of a new link
C26_OptionalArguments ==
    [][/\ \A n \in 2..4 :
            (BodyLineStep /\ m_current_line' = AntiLockBrakesValues(n))
            => StoredWith("antilockbrakes", "pulse_per_sec", IF n >= 3 THEN 7 ELSE 0)
       /\ \A n \in 1..4 :
            (BodyLineStep /\ m_current_line' = ScaleLine(n))
            => /\ m_user_beam_defaults' /= m_user_beam_defaults
               /\ heap'.bd[m_user_beam_defaults'].scale.springiness = 2
               /\ console' = console]_vars

(***************************************************************************)
(* Lines of many tokens: below, at and above LINE_MAX_ARGS.                *)
(***************************************************************************)
MaxLinesTokenizer == 4

RECURSIVE Repeated(_, _)
Repeated(unit, n) == IF n = 0 THEN <<>> ELSE unit \o Repeated(unit, n - 1)

\* n times a token and its separators, then the rest of the line
TokenizerLines ==
    { RawLine(Repeated(unit, n) \o rest) :
        unit \in { <<"1", " ">>, <<"1", "2", ",", ":">>, <<"|", "\t", "7">> },
        n \in {1, LINE_MAX_ARGS - 1, LINE_MAX_ARGS, LINE_MAX_ARGS + 1},
        rest \in { <<>>, <<"3">> } }

ReadTokenizerLine == ReadOneOf(TokenizerLines, MaxLinesTokenizer)

NextTokenizer ==
    \/ ReadTitle(MaxLinesTokenizer)
    \/ ReadTokenizerLine
    \/ EndOfStream

SpecTokenizer == Init /\ [][NextTokenizer]_vars

(***************************************************************************)
(* C27  Tokenizer.                                                         *)
(***************************************************************************)
\* the positions where a maximal run of non-separator characters starts, in
\* order
RunStarts(chars) ==
    SelectSeq([i \in 1..Len(chars) |-> i],
              LAMBDA i : ~IsSeparator(chars[i]) /\ (i = 1 \/ IsSeparator(chars[i - 1])))

\* the maximal run which starts at position i
MaximalRun(chars, i) ==
    SubSeq(chars, i,
           CHOOSE j \in i..Len(chars) :
               /\ \A k \in i..j : ~IsSeparator(chars[k])
               /\ j = Len(chars) \/ IsSeparator(chars[j + 1]))

\* m_args and m_num_args hold the first LINE_MAX_ARGS maximal runs of chars
HoldsFirstRuns(chars, starts) ==
    /\ m_num_args' = IF Len(starts) < LINE_MAX_ARGS THEN Len(starts) ELSE LINE_MAX_ARGS
    /\ Len(m_args') = m_num_args'
    /\ \A k \in 1..Len(m_args') :
          /\ m_args'[k] = MaximalRun(chars, starts[k])
          /\ m_args'[k] /= <<>>
          /\ \A i \in DOMAIN m_args'[k] : ~IsSeparator(m_args'[k][i])

\* C27: after a line is tokenized m_args holds, in order, the maximal runs
\* of non-separator characters of the line, each non-empty and free of
\* separators, cut to the first LINE_MAX_ARGS runs; m_num_args is the number
\* of slices stored and no slot from LINE_MAX_ARGS on is written
C27_Tokenizer ==
    [][(BodyLineStep /\ m_current_line'.text = "text")
          => HoldsFirstRuns(m_current_line'.raw, RunStarts(m_current_line'.raw))]_vars

\* a line of LINE_MAX_ARGS + 2 runs was cut to LINE_MAX_ARGS slices
C27_Witness ==
    /\ stream = "open"
    /\ m_num_args = LINE_MAX_ARGS
    /\ Len(m_args) = LINE_MAX_ARGS
    /\ m_args[LINE_MAX_ARGS] = <<"1", "2">>
    /\ Len(m_current_line.raw) = 4 * (LINE_MAX_ARGS + 1) + 1
    /\ m_current_line.raw[Len(m_current_line.raw)] = "3"

(***************************************************************************)
(* Obsolete keywords among sections, staged objects, modules and defaults. *)
(***************************************************************************)
MaxLinesObsolete == 4

ObsoleteScenarioLines ==
    { KeywordLine("submesh", <<>>), KeywordLine("cab", <<>>),
      KeywordLine("camerarail", <<>>), KeywordLine("beams", <<>>),
      KeywordLine("set_node_defaults", << <<"5">> >>),
      SectionAlpha, StagedDataLine }

ReadObsoleteScenarioLine == ReadOneOf(ObsoleteScenarioLines, MaxLinesObsolete)

\* the obsolete keyword alone, or with what used to follow it
ReadObsoleteKeyword ==
    ReadOneOf({KeywordLine(kw, args) : kw \in ObsoleteKeywords,
                                       args \in {<<>>, << <<"1">>, <<"2">> >>}},
              MaxLinesObsolete)

NextObsolete ==
    \/ ReadTitle(MaxLinesObsolete)
    \/ ReadObsoleteScenarioLine
    \/ ReadObsoleteKeyword
    \/ EndOfStream

SpecObsolete == Init /\ [][NextObsolete]_vars

(***************************************************************************)
(* C28  Deprecated keywords.                                               *)
(***************************************************************************)
\* C28: a line whose keyword is envmap, hookgroup, nodecollision or
\* rigidifiers stores no record, logs nothing and leaves the open block, the
\* current module, the staged submesh and camera rail and the defaults
\* context as they were
C28_DeprecatedKeywords ==
    [][(BodyLineStep /\ m_current_line'.kw \in ObsoleteKeywords)
          => UNCHANGED << modules, console, m_current_block, m_current_module,
                          m_current_submesh, m_current_camera_rail, heap,
                          m_user_node_defaults, m_user_beam_defaults,
                          m_user_default_inertia, m_set_default_minimass,
                          m_current_managed_material_options,
                          m_current_detacher_group, m_definition,
                          m_sequential_importer, m_any_named_node_defined >>]_vars

\* nodecollision was read with the block cab open and a submesh staged
C28_Witness ==
    /\ m_current_line = KeywordLine("nodecollision", <<>>)
    /\ m_current_block = "cab"
    /\ m_current_submesh /= <<>>
    /\ console = <<>>
    /\ stream = "open"

(***************************************************************************)
(* set_inertia_defaults directives, and hydros which capture the link.     *)
(***************************************************************************)
MaxLinesInertia == 4

SetInertiaDefaultsLines ==
    { KeywordLine("set_inertia_defaults", <<>>),
      KeywordLine("set_inertia_defaults", << <<"3">>, <<"4">>, <<"f">>, <<"g">> >>),
      KeywordLine("set_inertia_defaults", << Neg1 >>),
      KeywordLine("set_inertia_defaults", << <<"5">> >>),
      KeywordLine("set_inertia_defaults", << <<"5">>, Neg1 >>),
      KeywordLine("set_inertia_defaults", << <<"6">>, <<"7">> >>),
      KeywordLine("set_inertia_defaults", << <<"6">>, <<"7">>, <<"h">> >>) }

ReadSetInertiaDefaults == ReadOneOf(SetInertiaDefaultsLines, MaxLinesInertia)

OpenHydrosSection == ReadOneOf({KeywordLine("hydros", <<>>)}, MaxLinesInertia)

ReadHydroRecord ==
    /\ m_current_block = "hydros"
    /\ ReadOneOf({DataLine(<< <<"1">>, <<"2">>, <<"1">> >>)}, MaxLinesInertia)

NextInertia ==
    \/ ReadTitle(MaxLinesInertia)
    \/ ReadSetInertiaDefaults
    \/ OpenHydrosSection
    \/ ReadHydroRecord
    \/ EndOfStream

SpecInertia == Init /\ [][NextInertia]_vars

(***************************************************************************)
(* C29  Inertia-defaults inheritance.                                      *)
(***************************************************************************)
\* the step processed a set_inertia_defaults directive which passed its gate
SetInertiaDefaultsStep ==
    /\ BodyLineStep
    /\ m_current_line'.kw = "set_inertia_defaults"
    /\ Len(m_current_line'.toks) >= 2

\* the function name the line gives at token index, or the one of link prior
FunctionOr(line, index, prior) ==
    IF Omitted(line, index) THEN prior ELSE line.toks[index + 1]

MaxLinesDeformation == 5

DeformationLines ==
    { KeywordLine("enable_advanced_deformation", <<>>),
      KeywordLine("rescuer", <<>>),
      KeywordLine("set_beam_defaults", << <<"5">> >>),
      KeywordLine("set_beam_defaults", << <<"5">>, <<"7">> >>),
      KeywordLine("set_beam_defaults_scale", << <<"2">>, <<"2">>, <<"2">>, <<"2">> >>),
      KeywordLine("beams", <<>>) }

ReadDeformationLine == ReadOneOf(DeformationLines, MaxLinesDeformation)

ReadDeformedBeam ==
    /\ m_current_block = "beams"
    /\ ReadOneOf({BeamLine}, MaxLinesDeformation)

NextDeformation ==
    \/ ReadTitle(MaxLinesDeformation)
    \/ ReadDeformationLine
    \/ ReadDeformedBeam
    \/ EndOfStream

SpecDeformation == Init /\ [][NextDeformation]_vars

(***************************************************************************)
(* C30  Ordering of enable_advanced_deformation.                           *)
(***************************************************************************)
\* the File has seen the directive
AdvancedDeformationEnabled == "enable_advanced_deformation" \in m_definition.flags

\* the step processed the enable_advanced_deformation directive
EnableAdvancedDeformationStep ==
    /\ BodyLineStep
    /\ m_current_line'.kw = "enable_advanced_deformation"

\* the advanced-deformation flag of beam defaults object p, before and after
FlagOf(p) == heap.bd[p]._enable_advanced_deformation

FlagAfterOf(p) == heap'.bd[p]._enable_advanced_deformation

\* C30: the directive is on record from the line that gives it, and from no
\* other; the beam defaults made by a set_beam_defaults line have the
\* advanced-deformation flag set exactly when the directive came on an
\* earlier line; no other line changes the flag of the current beam defaults
\* (set_beam_defaults_scale copies it); and the beam defaults which a record
\* captured keep their flag, whatever line follows
C30_AdvancedDeformationOrdering ==
    [][/\ AdvancedDeformationEnabled' =
             (AdvancedDeformationEnabled \/ EnableAdvancedDeformationStep)
       /\ IF SetBeamDefaultsStep
          THEN /\ m_user_beam_defaults' \notin DOMAIN heap.bd
               /\ FlagAfterOf(m_user_beam_defaults') = AdvancedDeformationEnabled
          ELSE FlagAfterOf(m_user_beam_defaults') = FlagOf(m_user_beam_defaults)
       /\ \A m \in DOMAIN modules : \A i \in DOMAIN modules[m].beams :
             /\ modules'[m].beams[i].defaults = modules[m].beams[i].defaults
             /\ FlagAfterOf(modules[m].beams[i].defaults) =
                   FlagOf(modules[m].beams[i].defaults)]_vars

\* a beam, the directive, set_beam_defaults: the current beam defaults have
\* the flag, those the beam captured have not
C30_Witness ==
    /\ AdvancedDeformationEnabled
    /\ m_current_line.kw = "set_beam_defaults"
    /\ FlagOf(m_user_beam_defaults)
    /\ Len(modules[1].beams) = 1
    /\ ~FlagOf(modules[1].beams[1].defaults)

(***************************************************************************)
(* Engine sections: six leading values, then forward gears and terminator. *)
(***************************************************************************)
MaxLinesEngine == 4

GearTokens == { <<"2">>, <<"0">>, Neg1, <<"x">> }

GearLists ==
    { <<>> } \cup { <<a>> : a \in GearTokens }
             \cup { <<a, b>> : a \in GearTokens, b \in GearTokens }
             \cup { <<Neg1, <<"2">>, <<"2">> >>, << <<"2">>, <<"0">>, Neg1 >> }

EngineLine(gears) ==
    DataLine(<< <<"9">>, <<"8">>, <<"7">>, <<"6">>, Neg1, <<"1">> >> \o gears)

OpenEngineSection == ReadOneOf({KeywordLine("engine", <<>>)}, MaxLinesEngine)

ReadEngineLine ==
    /\ m_current_block = "engine"
    /\ \E gears \in GearLists : ReadOneOf({EngineLine(gears)}, MaxLinesEngine)

ReadShortEngineLine ==
    /\ m_current_block = "engine"
    /\ ReadOneOf({DataLine(<< <<"9">>, <<"8">>, <<"7">>, <<"6">>, Neg1 >>)},
                 MaxLinesEngine)

NextEngine ==
    \/ ReadTitle(MaxLinesEngine)
    \/ OpenEngineSection
    \/ ReadEngineLine
    \/ ReadShortEngineLine
    \/ EndOfStream

SpecEngine == Init /\ [][NextEngine]_vars

(***************************************************************************)
(* C31  Engine records.                                                    *)
(***************************************************************************)
\* the step processed a data line of an engine section which passed the gate
EngineLineStep ==
    /\ BodyLineStep
    /\ m_current_block = "engine"
    /\ m_current_line'.kw = KEYWORD_INVALID
    /\ Len(m_current_line'.toks) >= 6

\* the values of tokens i.. of the line up to the first negative one
RECURSIVE GearsBeforeTerminator(_, _)
GearsBeforeTerminator(toks, i) ==
    IF i > Len(toks) \/ ParseReal(toks[i]) < 0 THEN <<>>
    ELSE <<ParseReal(toks[i])>> \o GearsBeforeTerminator(toks, i + 1)

\* C31: every engine record stored in a module has at least one forward gear
\* ratio and no negative one; an engine line stores the values before its
\* first negative value as forward gears, and when there is none it logs
\* "no forward gear" and appends no record
C31_EngineRecords ==
    [][/\ \A m \in DOMAIN modules' : \A i \in DOMAIN modules'[m].engine :
             /\ Len(modules'[m].engine[i].gear_ratios) >= 1
             /\ \A g \in DOMAIN modules'[m].engine[i].gear_ratios :
                    modules'[m].engine[i].gear_ratios[g] >= 0
       /\ EngineLineStep =>
             IF GearsBeforeTerminator(m_current_line'.toks, 7) = <<>>
             THEN /\ LoggedExactly(CONSOLE_SYSTEM_ERROR, "no forward gear")
                  /\ modules' = modules
             ELSE /\ StoredWith("engine", "gear_ratios",
                                GearsBeforeTerminator(m_current_line'.toks, 7))
                  /\ console' = console]_vars

\* an engine with gears 2 and 0 is stored, then a line whose first gear value
\* is the terminator is refused
C31_Witness ==
    /\ m_current_line = EngineLine(<< Neg1, <<"2">>, <<"2">> >>)
    /\ Len(modules[1].engine) = 1
    /\ modules[1].engine[1].gear_ratios = <<2, 0>>
    /\ console /= <<>>
    /\ console[Len(console)].msg = "no forward gear"

(***************************************************************************)
(* commands and commands2 lines with an options token.                     *)
(***************************************************************************)
MaxLinesCommands == 3

CommandOptionChars == {"c", "p", "o", "i"}

CommandOptionTokens ==
    { <<a>> : a \in CommandOptionChars }
        \cup { <<a, b>> : a \in CommandOptionChars, b \in CommandOptionChars }
        \cup { <<a, b, c>> : a \in {"c", "p", "o"}, b \in {"c", "p", "o"},
                             c \in {"c", "p", "o"} }

\* nodes 1 2, rate(s), contraction, extension, keys 1 2, then the options
CommandLine(block, options) ==
    DataLine((IF block = "commands2"
              THEN << <<"1">>, <<"2">>, <<"1">>, <<"1">> >>
              ELSE << <<"1">>, <<"2">>, <<"1">> >>)
             \o << <<"1">>, <<"1">>, <<"1">>, <<"2">> >> \o options)

OpenCommandsSection ==
    ReadOneOf({KeywordLine("commands", <<>>), KeywordLine("commands2", <<>>)},
              MaxLinesCommands)

ReadCommandLine ==
    /\ m_current_block \in {"commands", "commands2"}
    /\ \E options \in CommandOptionTokens :
           ReadOneOf({CommandLine(m_current_block, <<options>>)}, MaxLinesCommands)

ReadCommandWithoutOptions ==
    /\ m_current_block \in {"commands", "commands2"}
    /\ ReadOneOf({CommandLine(m_current_block, <<>>)}, MaxLinesCommands)

NextCommands ==
    \/ ReadTitle(MaxLinesCommands)
    \/ OpenCommandsSection
    \/ ReadCommandLine
    \/ ReadCommandWithoutOptions
    \/ EndOfStream

SpecCommands == Init /\ [][NextCommands]_vars

(***************************************************************************)
(* C32  Command option conflicts.                                          *)
(***************************************************************************)
\* the step processed a data line of a commands or commands2 section
CommandLineStep ==
    /\ BodyLineStep
    /\ m_current_block \in {"commands", "commands2"}
    /\ m_current_line'.kw = KEYWORD_INVALID

\* the first of the characters c, p, o of an options token, in a set; empty
\* when the token holds none
RECURSIVE FirstModeFlag(_)
FirstModeFlag(str) ==
    IF str = <<>> THEN {}
    ELSE IF Head(str) \in {"c", "p", "o"} THEN {Head(str)}
    ELSE FirstModeFlag(Tail(str))

\* the options token of a command line of the block, empty when it has none
OptionsTokenOf(line, block) ==
    IF Len(line.toks) > (IF block = "commands2" THEN 8 ELSE 7)
    THEN line.toks[(IF block = "commands2" THEN 8 ELSE 7) + 1]
    ELSE <<>>

\* the mode flags of the last command record of the current module
LastCommandModeFlags ==
    modules'[m_current_module].commands2
        [Len(modules'[m_current_module].commands2)].options \cap {"c", "p", "o"}

\* C32: every command record stored by a commands or commands2 line has at
\* most one of the flags auto-center (c), one-press (p) and one-press-center
\* (o) set, and the flag that remains is the first of c, p, o to appear in
\* the options token
C32_CommandOptionConflicts ==
    [][CommandLineStep =>
          /\ Len(modules'[m_current_module].commands2) =
                Len(modules[m_current_module].commands2) + 1
          /\ Cardinality(LastCommandModeFlags) <= 1
          /\ LastCommandModeFlags =
                FirstModeFlag(OptionsTokenOf(m_current_line', m_current_block))]_vars

(***************************************************************************)
(* C33  Staged submesh present.                                            *)
(***************************************************************************)
\* the step handed a data line which passes the gate to ParseCab or
\* ParseTexcoords
SubmeshDataStep ==
    /\ BodyLineStep
    /\ m_current_block \in {"cab", "texcoords"}
    /\ m_current_line'.kw = KEYWORD_INVALID
    /\ Len(m_current_line'.toks) >= 3

\* C33: whenever a cab or texcoords data line is processed a staged submesh
\* exists, also in a cab or texcoords section opened without a submesh
\* directive before it or reopened after an end that flushed the submesh; the
\* line dereferences no missing submesh and the parse goes on
C33_StagedSubmeshPresent ==
    [][SubmeshDataStep =>
          /\ m_current_submesh /= <<>>
          /\ stream' = "open"]_vars

(***************************************************************************)
(* Directives which attach to the last prop or flexbody: props and         *)
(* flexbodies sections, prop_camera_mode, flexbody_camera_mode, forset.    *)
(***************************************************************************)
MaxLinesAttached == 4

PropLine(mesh) ==
    DataLine(<< <<"1">>, <<"2">>, <<"3">>, <<"0">>, <<"0">>, <<"0">>,
                <<"0">>, <<"0">>, <<"0">>, mesh >>)

AttachedDirectiveLines ==
    { KeywordLine("prop_camera_mode", << <<"1">> >>),
      KeywordLine("prop_camera_mode", << Neg1 >>),
      KeywordLine("prop_camera_mode", << <<"-", "5">> >>),
      KeywordLine("prop_camera_mode", <<>>),
      KeywordLine("flexbody_camera_mode", << <<"2">> >>),
      ForsetLine(<<" ", "1", ",", "2">>) }

ReadAttachedSection ==
    ReadOneOf({KeywordLine("props", <<>>), KeywordLine("flexbodies", <<>>)},
              MaxLinesAttached)

ReadProp ==
    /\ m_current_block = "props"
    /\ ReadOneOf({PropLine(<<"m">>), PropLine(Chars("dashboard") \o <<"2">>),
                  PropLine(Chars("beacon"))}, MaxLinesAttached)

ReadFlexbody ==
    /\ m_current_block = "flexbodies"
    /\ ReadOneOf({FlexbodyLine}, MaxLinesAttached)

ReadAttachedDirective == ReadOneOf(AttachedDirectiveLines, MaxLinesAttached)

ReadAttachedSwitch == ReadOneOf({SectionAlpha}, MaxLinesAttached)

NextAttached ==
    \/ ReadTitle(MaxLinesAttached)
    \/ ReadAttachedSection
    \/ ReadProp
    \/ ReadFlexbody
    \/ ReadAttachedDirective
    \/ ReadAttachedSwitch
    \/ EndOfStream

SpecAttached == Init /\ [][NextAttached]_vars

(***************************************************************************)
(* C34  Attached directives need a target.                                 *)
(***************************************************************************)
\* the collection whose last record a directive keyword attaches to
TargetOf(kw) == IF kw = "prop_camera_mode" THEN "props" ELSE "flexbodies"

\* the step processed an attached directive which passed its gate
AttachedDirectiveStep ==
    /\ BodyLineStep
    /\ m_current_line'.kw \in {"prop_camera_mode", "flexbody_camera_mode", "forset"}
    /\ Len(m_current_line'.toks) >= 2

\* the records of the current module before and after, but for the last
\* record of collection coll
AllButLastKept(coll) ==
    /\ DOMAIN modules' = DOMAIN modules
    /\ \A m \in DOMAIN modules : \A c \in Collections :
          /\ Len(modules'[m][c]) = Len(modules[m][c])
          /\ \A i \in DOMAIN modules[m][c] :
                 (m = m_current_module /\ c = coll /\ i = Len(modules[m][c]))
                     \/ modules'[m][c][i] = modules[m][c][i]

\* C34: prop_camera_mode is applied only when the current module holds a
\* prop, flexbody_camera_mode and forset only when it holds a flexbody; the
\* directive then changes the last such record of the current module only,
\* and otherwise it changes no record and reads no element of the empty
\* collection, so that the parse goes on (add_animation, the fourth such
\* directive, is in no document here)
C34_AttachedDirectives ==
    [][AttachedDirectiveStep =>
          /\ stream' = "open"
          /\ IF modules[m_current_module][TargetOf(m_current_line'.kw)] = <<>>
             THEN modules' = modules
             ELSE AllButLastKept(TargetOf(m_current_line'.kw))]_vars

(***************************************************************************)
(* Documents with comment and description blocks whose lines start with    *)
(* keywords.                                                               *)
(***************************************************************************)
MaxLinesOpaque == 4

OpaqueBlockLines ==
    { KeywordLine("comment", <<>>), KeywordLine("description", <<>>),
      KeywordLine("end_comment", <<>>), KeywordLine("end_description", <<>>) }

OpaqueBodyLines ==
    { DataLine(<< <<"1">>, <<"2">> >>),
      KeywordLine("beams", <<>>),
      KeywordLine("rescuer", <<>>),
      KeywordLine("detacher_group", << <<"3">> >>),
      SectionAlpha }

ReadOpaqueBlockLine == ReadOneOf(OpaqueBlockLines, MaxLinesOpaque)

ReadOpaqueBodyLine == ReadOneOf(OpaqueBodyLines, MaxLinesOpaque)

NextOpaque ==
    \/ ReadTitle(MaxLinesOpaque)
    \/ ReadOpaqueBlockLine
    \/ ReadOpaqueBodyLine
    \/ EndOfStream

SpecOpaque == Init /\ [][NextOpaque]_vars

(***************************************************************************)
(* C35  Comment and description blocks are opaque.                         *)
(***************************************************************************)
\* the keyword which ends a comment or description block
MatchingEnd(block) == IF block = "comment" THEN "end_comment" ELSE "end_description"

\* the step processed a line inside a comment or description block, other
\* than the keyword which ends it
OpaqueLineStep ==
    /\ BodyLineStep
    /\ m_current_block \in {"comment", "description"}
    /\ m_current_line'.kw /= MatchingEnd(m_current_block)

\* C35: while a comment or description block is open, no line other than
\* the matching end keyword changes the document, the defaults context, the
\* current module or the open block, also when the line starts with a keyword
C35_OpaqueBlocks ==
    [][OpaqueLineStep =>
          /\ modules' = modules
          /\ m_definition' = m_definition
          /\ heap' = heap
          /\ m_user_node_defaults' = m_user_node_defaults
          /\ m_user_beam_defaults' = m_user_beam_defaults
          /\ m_user_default_inertia' = m_user_default_inertia
          /\ m_set_default_minimass' = m_set_default_minimass
          /\ m_current_managed_material_options' = m_current_managed_material_options
          /\ m_current_detacher_group' = m_current_detacher_group
          /\ m_current_module' = m_current_module
          /\ m_current_block' = m_current_block]_vars

(***************************************************************************)
(* C36  Staged objects stay in their module.                               *)
(***************************************************************************)
\* the records of collection c which the step appended to module m (a module
\* the step made had none before)
AppendedTo(m, c) ==
    { modules'[m][c][i] :
        i \in (DOMAIN modules'[m][c]) \
              (IF m \in DOMAIN modules THEN DOMAIN modules[m][c] ELSE {}) }

\* C36: a submesh or camera rail enters a module's collection only as the
\* object which was staged before the step, and only in the module which was
\* current before the step; and a step which changes the current module
\* leaves no submesh and no camera rail holding nodes staged.  So a staged
\* object is committed to the module current when it was staged, and a
\* module switch commits it to the module left, never to the one entered.
C36_StagedStayInModule ==
    [][/\ \A m \in DOMAIN modules' :
             /\ \A r \in AppendedTo(m, "submeshes") :
                    /\ m = m_current_module
                    /\ m_current_submesh = <<r>>
             /\ \A r \in AppendedTo(m, "camerarail") :
                    /\ m = m_current_module
                    /\ m_current_camera_rail = <<r>>
       /\ m_current_module' /= m_current_module =>
             /\ m_current_submesh' = <<>>
             /\ m_current_camera_rail' = <<>> \/ m_current_camera_rail'[1].nodes = <<>>]_vars

\* section alpha, camerarail, a node line, end_section: the rail is in
\* module alpha and the root module is current
C36_Witness ==
    /\ m_current_line = EndSection
    /\ m_current_module = m_root_module
    /\ Len(modules) = 2
    /\ Len(modules[2].camerarail) = 1
    /\ modules[m_root_module].camerarail = <<>>
    /\ m_current_camera_rail = <<>>

(***************************************************************************)
(* Module switches among the directives which set defaults.                *)
(***************************************************************************)
MaxLinesSwitchDefaults == 4

SwitchDefaultsLines ==
    { KeywordLine("set_node_defaults", << <<"5">>, <<"6">>, <<"7">>, <<"8">> >>),
      KeywordLine("set_beam_defaults", << <<"5">> >>),
      KeywordLine("set_inertia_defaults", << <<"3">>, <<"4">> >>),
      KeywordLine("set_default_minimass", << <<"5">> >>),
      KeywordLine("set_managedmaterials_options", << <<"1">> >>),
      KeywordLine("detacher_group", << <<"3">> >>) }

ReadSwitchDefaults == ReadOneOf(SwitchDefaultsLines, MaxLinesSwitchDefaults)

ReadDefaultsSwitch ==
    ReadOneOf({SectionAlpha, SectionBeta, EndSection}, MaxLinesSwitchDefaults)

NextSwitchDefaults ==
    \/ ReadTitle(MaxLinesSwitchDefaults)
    \/ ReadSwitchDefaults
    \/ ReadDefaultsSwitch
    \/ EndOfStream

SpecSwitchDefaults == Init /\ [][NextSwitchDefaults]_vars

(***************************************************************************)
(* C37  Module switching leaves the defaults context alone.                *)
(***************************************************************************)
\* the step processed a section or end_section line
ChangeModuleStep ==
    /\ BodyLineStep
    /\ m_current_line'.kw \in {"section", "end_section"}

\* C37: a section or end_section line changes none of the current node
\* defaults, beam defaults, inertia defaults, default minimass,
\* managed-material options and detacher group, nor any defaults object
C37_SwitchKeepsDefaults ==
    [][ChangeModuleStep =>
          /\ m_user_node_defaults' = m_user_node_defaults
          /\ m_user_beam_defaults' = m_user_beam_defaults
          /\ m_user_default_inertia' = m_user_default_inertia
          /\ m_set_default_minimass' = m_set_default_minimass
          /\ m_current_managed_material_options' = m_current_managed_material_options
          /\ m_current_detacher_group' = m_current_detacher_group
          /\ heap' = heap]_vars

\* section alpha, detacher_group 3, end_section: the root module is current
\* and the detacher group is the one set inside alpha
C37_Witness ==
    /\ m_current_line = EndSection
    /\ m_current_module = m_root_module
    /\ Len(modules) = 2
    /\ m_current_detacher_group = 3

(***************************************************************************)
(* set_skeleton_settings and extcamera directives, torquecurve sections,   *)
(* in the root module and in a named one.                                  *)
(***************************************************************************)
MaxLinesSingletons == 5

SingletonDirectiveLines ==
    { KeywordLine("set_skeleton_settings", << <<"5">> >>),
      KeywordLine("set_skeleton_settings", << Neg1, <<"7">> >>),
      KeywordLine("extcamera", << <<"c","i","n","e","c","a","m">> >>),
      KeywordLine("extcamera", << <<"n","o","d","e">>, <<"4">> >>),
      KeywordLine("torquecurve", <<>>),
      SectionAlpha }

TorqueCurveLines ==
    { RawLine(<<"d","i","e","s","e","l">>),
      RawLine(<<"1", ",", "2">>),
      RawLine(<<"3", ",", "4">>),
      RawLine(<<"1", ",", "2", ",", "3">>) }

ReadSingletonDirective == ReadOneOf(SingletonDirectiveLines, MaxLinesSingletons)

ReadTorqueCurveLine ==
    /\ m_current_block = "torquecurve"
    /\ ReadOneOf(TorqueCurveLines, MaxLinesSingletons)

NextSingletons ==
    \/ ReadTitle(MaxLinesSingletons)
    \/ ReadSingletonDirective
    \/ ReadTorqueCurveLine
    \/ EndOfStream

SpecSingletons == Init /\ [][NextSingletons]_vars

(***************************************************************************)
(* C38  Singleton records.                                                 *)
(***************************************************************************)
SingletonCollections == {"set_skeleton_settings", "extcamera", "torquecurve"}

\* the step processed a line which the parser of singleton collection c
\* accepts
SingletonLineStep(c) ==
    /\ BodyLineStep
    /\ CASE c = "torquecurve" ->
               m_current_block = "torquecurve" /\ m_current_line'.kw = KEYWORD_INVALID
         [] OTHER -> m_current_line'.kw = c /\ Len(m_current_line'.toks) >= 2

\* C38: in each module the set_skeleton_settings, extcamera and torquecurve
\* collections hold at most one record; a directive or data line of the
\* collection leaves exactly one record in the current module, so that a
\* later line updates the record in place and appends none
C38_SingletonRecords ==
    [][/\ \A m \in DOMAIN modules' : \A c \in SingletonCollections :
             Len(modules'[m][c]) <= 1
       /\ \A c \in SingletonCollections :
             SingletonLineStep(c) => Len(modules'[m_current_module][c]) = 1]_vars

\* a torquecurve line which names a function, then a line with a sample:
\* the one record holds the name and the sample
C38_Witness ==
    /\ Len(modules[m_root_module].torquecurve) = 1
    /\ modules[m_root_module].torquecurve[1].predefined_func_name
          = <<"d","i","e","s","e","l">>
    /\ modules[m_root_module].torquecurve[1].samples
          = << [power |-> 1, torque_percent |-> 2] >>

(***************************************************************************)
(* One parser, several documents: after the end of a stream the caller     *)
(* calls Prepare() again and hands over the stream of the next document.   *)
(***************************************************************************)
MaxLinesReuse == 3

\* documents parsed by the one parser; each Prepare() allocates one beam
\* defaults object and the documents here allocate none
MaxParsesReuse == 2

ReuseLines ==
    { KeywordLine("set_default_minimass", << <<"5">> >>),
      KeywordLine("detacher_group", << <<"3">> >>),
      KeywordLine("set_inertia_defaults", << <<"3">>, <<"4">> >>),
      KeywordLine("nodes", <<>>),
      KeywordLine("camerarail", <<>>),
      KeywordLine("submesh", <<>>),
      SectionAlpha }

ReadReuseLine == ReadOneOf(ReuseLines, MaxLinesReuse)

ReadReuseNode ==
    /\ m_current_block = "nodes"
    /\ ReadOneOf({NodeLine(<<"1">>)}, MaxLinesReuse)

PrepareAgain ==
    /\ stream = "finalized"
    /\ Len(heap.bd) < MaxParsesReuse
    /\ Becomes(PrepareFrom(State))

NextReuse ==
    \/ ReadTitle(MaxLinesReuse)
    \/ ReadReuseLine
    \/ ReadReuseNode
    \/ EndOfStream
    \/ PrepareAgain

SpecReuse == Init /\ [][NextReuse]_vars

(***************************************************************************)
(* C39  Parser reuse.                                                      *)
(***************************************************************************)
\* the step is Prepare() after a document
PrepareStep == stream = "finalized" /\ stream' = "open"

\* C39: after Prepare() the open block, the current module, the node, beam
\* and inertia defaults, the default minimass, the managed-material options,
\* the detacher group, the staged submesh and camera rail and the named-node
\* flag are those of a new parser after Prepare(), whatever document was
\* parsed before
C39_ParserReuse ==
    [][PrepareStep =>
          /\ m_current_block' = Prepare.m_current_block
          /\ m_current_module' = Prepare.m_current_module
          /\ modules' = Prepare.modules
          /\ m_definition' = Prepare.m_definition
          /\ heap'.nd[m_user_node_defaults'] = Prepare.heap.nd[Prepare.m_user_node_defaults]
          /\ heap'.bd[m_user_beam_defaults'] = Prepare.heap.bd[Prepare.m_user_beam_defaults]
          /\ heap'.inertia[m_user_default_inertia'] =
                Prepare.heap.inertia[Prepare.m_user_default_inertia]
          /\ m_set_default_minimass' = Prepare.m_set_default_minimass
          /\ m_current_managed_material_options' =
                Prepare.m_current_managed_material_options
          /\ m_current_detacher_group' = Prepare.m_current_detacher_group
          /\ m_current_submesh' = Prepare.m_current_submesh
          /\ m_current_camera_rail' = Prepare.m_current_camera_rail
          /\ m_any_named_node_defined' = Prepare.m_any_named_node_defined]_vars

(***************************************************************************)
(* Documents of axle links, fixed nodes and camera rails: the sections     *)
(* whose record parsers test no token count, or too small a one.           *)
(***************************************************************************)
MaxLinesTokenIndex == 4

TokenIndexSections ==
    { KeywordLine("interaxles", <<>>), KeywordLine("fixes", <<>>),
      KeywordLine("camerarail", <<>>) }

TokenIndexDataLines ==
    { RawLine(<<"1">>),
      RawLine(<<"1", ",", "2">>),
      RawLine(<<"1", ",", "2", ",", "d", "(", "l", ")">>),
      RawLine(<<"1", ",", "2", ",", "d", "(", "x", ")">>),
      RawLine(<<"1", ",", "2", ",", "x">>),
      RawLine(<<",">>),
      RawLine(<<",", " ", ",">>) }

ReadTokenIndexSection == ReadOneOf(TokenIndexSections, MaxLinesTokenIndex)

ReadTokenIndexData ==
    /\ m_current_block \in {"interaxles", "fixes", "camerarail"}
    /\ ReadOneOf(TokenIndexDataLines, MaxLinesTokenIndex)

NextTokenIndex ==
    \/ ReadTitle(MaxLinesTokenIndex)
    \/ ReadTokenIndexSection
    \/ ReadTokenIndexData
    \/ EndOfStream

SpecTokenIndex == Init /\ [][NextTokenIndex]_vars

(***************************************************************************)
(* C40  Token index safety.                                                *)
(***************************************************************************)
\* the step processed a data line of section c
SectionDataStep(c) ==
    /\ BodyLineStep
    /\ m_current_block = c
    /\ m_current_line'.kw = KEYWORD_INVALID

\* the line of the step was skipped: no record stored, nothing staged, no
\* message, and the parse goes on
RecordLineSkipped ==
    /\ stream' = "open"
    /\ modules' = modules
    /\ m_current_camera_rail' = m_current_camera_rail
    /\ console' = console

\* C40: no record parser reads a token index which is not below the number
\* of tokens of the line: an interaxles line of fewer than 3 fields split at
\* ',' is skipped before its third field is read, and a fixes or camerarail
\* data line made of separator characters only reads no token, so that it
\* stores no node
C40_TokenIndexSafety ==
    [][/\ SectionDataStep("interaxles")
            /\ Len(OgreSplit(m_current_line'.raw, ",")) < 3
          => RecordLineSkipped
       /\ (SectionDataStep("fixes") \/ SectionDataStep("camerarail"))
            /\ m_num_args' = 0
          => RecordLineSkipped]_vars

====
